---- MODULE Spec2Model ----
(***************************************************************************)
(* Model of the Vendor-F (Fuji) side of the PTP/IP client:                 *)
(*   - cmd/main.go  main(): flags, NewClient, deferred Close, Dial, exit   *)
(*   - ip/packets_fuji.go  FujiInitSequence(): the post-connection         *)
(*     handshake on the Command/Data connection, with the response         *)
(*     predicates WasSuccessfull / ReasonAsError of both response variants *)
(* The responder (the camera) is the environment: it reads the request     *)
(* packets in the order they were written and answers each completed       *)
(* operation with response packets of its own choice.                      *)
(* Two further specifications share the variables:                         *)
(*   - SpecPacket: ip/packets_fuji.go  the Vendor-F Init Command Request,  *)
(*     built and serialised for a GUID and a friendly name                 *)
(*   - SpecCli: the command server's commandByName and command handlers    *)
(*     (unnamed/part_000), serving lines after main launched the server    *)
(*   - SpecView: the viewfinder widgets (unnamed/part_000), each redrawn   *)
(*     with property values on top of what the last redraw left            *)
(*   - SpecLive: FujiInitSequence on a connection that does not fail,      *)
(*     against a responder that always answers, under weak fairness        *)
(***************************************************************************)
EXTENDS Integers, Sequences, FiniteSets, TLC

VARIABLES
    pc,             \* position of the program (main -> Dial -> FujiInitSequence -> main)
    transactionId,  \* Client.transactionId
    cmdDataConn,    \* state of the Command/Data connection: "unopened", "open", "closed"
    deferred,       \* main's stack of deferred calls
    wire,           \* request packets written to the Command/Data connection, in order
    inbox,          \* packets the responder has sent and the client has not read yet
    respSeen,       \* number of packets of wire the responder has processed
    p,              \* FujiInitSequence's p  (*FujiOperationResponsePacket)
    po,             \* FujiInitSequence's po (*FujiOperationResponsePacketOne)
    err,            \* the error FujiInitSequence / Dial returned (NoError: nil)
    exitCode,       \* argument of os.Exit, -1 while the process runs
    trace,          \* history: every packet sent and every packet received, in order
    mainLog,        \* history: the branches main() has taken, in order
    guid,           \* the initiator's GUID (16 bytes)
    friendlyName,   \* the initiator's friendly name (UTF-16 code units)
    initReq,        \* the *FujiInitCommandRequestPacket built for the connection
    payload,        \* the bytes initReq.Payload() returned
    cmdFile,        \* which of the two commands files the server is built with
    cmdPc,          \* position of the server loop: "idle", "dispatch", "done", "panicked"
    cmdName,        \* the command name of the line being served
    cmdHandler,     \* the handler commandByName returned for cmdName
    cmdArgs,        \* the fields after the command name (the handler's f)
    cmdCalls,       \* history: the calls the handler made while serving the line
    cmdOut,         \* the string the handler returned, as a sequence of pieces
    vfImage,        \* img.Bounds().Max of the image the viewfinder draws into
    vfKind,         \* the widget of the viewfinder the property updates are for
    widget,         \* that *Widget: Origin, Dot, Colour, Face
    drawPc,         \* "idle", "drawn" after a draw returned, "panicked"
    drawVal,        \* the val of the last call of widget.Draw
    drawLocals,     \* the locals i, fStop, pos of drawFujiExposureBiasCompensation
    drawn,          \* history: the DrawString calls of the last draw, in order
    prevDraw,       \* history: drawVal, drawn and widget of the draw before the last
    responderKind   \* how many packets the responder answers an operation with

\* The variables of the Init Command Request and of the command server; main,
\* Dial, the handshake and the responder leave them alone.
packetVars == <<guid, friendlyName, initReq, payload>>
cliVars == <<cmdFile, cmdPc, cmdName, cmdHandler, cmdArgs, cmdCalls, cmdOut>>
viewVars == <<vfImage, vfKind, widget, drawPc, drawVal, drawLocals, drawn, prevDraw>>
outsideMain == <<packetVars, cliVars, viewVars, responderKind>>

\* The variables of main, Dial and the handshake.
mainVars == <<pc, transactionId, cmdDataConn, deferred, wire, inbox, respSeen, p, po,
              err, exitCode, trace, mainLog>>

\* What the Init Command Request, the command server and the viewfinder leave alone.
outsidePacket == <<mainVars, cliVars, viewVars, responderKind>>
outsideCli == <<mainVars, packetVars, viewVars, responderKind>>
outsideView == <<mainVars, packetVars, cliVars, responderKind>>

vars == <<mainVars, packetVars, cliVars, viewVars, responderKind>>

----------------------------------------------------------------------------
(* Bounds of the model *)

\* The responder picks its response codes among the codes at distance
\* 0..CodeSpread of the three codes WasSuccessfull names, plus the two fail reasons.
CodeSpread == 1

\* The responder reports an application version in
\* PM_Fuji_AppVersion .. PM_Fuji_AppVersion + MaxVersionDelta.
MaxVersionDelta == 1

----------------------------------------------------------------------------
(* Program constants *)

DPC_Fuji_UseInitSequence == 57089   \* 0xDF01
DPC_Fuji_AppVersion == 57124        \* 0xDF24
FR_Fuji_DeviceBusy == 8217          \* 0x00002019
FR_Fuji_InvalidParameter == 8221    \* 0x0000201D
PM_Fuji_InitSequence == 5           \* 0x00000005
PM_Fuji_AppVersion == 131073        \* 0x00020001
RC_Fuji_DevicePropValue == 4117     \* 0x1015

\* Constants of the packages ptp and ip (standard PTP / PTP-IP values).
RC_OK == 8193                       \* 0x2001
RC_SessionAlreadyOpen == 8222       \* 0x201E
OC_OpenSession == 4098              \* 0x1002
OC_GetDevicePropValue == 4117       \* 0x1015
OC_SetDevicePropValue == 4118       \* 0x1016
OC_InitiateOpenCapture == 4124      \* 0x101C
DP_NoDataOrDataIn == 1
DP_DataOut == 2

\* The session id FujiInitSequence opens.
FujiSessionID == 1

\* Client.transactionId of a freshly constructed client.
InitialTransactionId == 0

----------------------------------------------------------------------------
(* Packets *)

\* FujiOperationRequestPacket; Parameter2..5 are always zero and left out.
FujiOperationRequestPacket(dp, oc, tid, p1) ==
    [DataPhaseInfo |-> dp, OperationCode |-> oc, TransactionID |-> tid, Parameter1 |-> p1]

NewFujiOpenSessionCommand(tid, sid) ==
    FujiOperationRequestPacket(DP_NoDataOrDataIn, OC_OpenSession, tid, sid)

\* A packet of the responder: its response code and its parameters (none or one).
ResponsePacket(code, params) == [OperationResponseCode |-> code, Params |-> params]

\* The zero value of both response structs (new(...)).
ZeroResponse == [OperationResponseCode |-> 0]
ZeroResponseOne == [OperationResponseCode |-> 0, Parameter1 |-> 0]

(* Errors: nil, errors.New(text), and the errors of the connection helpers. *)
NoError == [kind |-> "nil", msg |-> "", code |-> 0]
SendError == [kind |-> "send", msg |-> "", code |-> 0]
WaitError == [kind |-> "wait", msg |-> "", code |-> 0]
DialError == [kind |-> "dial", msg |-> "", code |-> 0]

\* ptp.OperationResponseCodeAsString: the canonical name of a response code.
OperationResponseCodeAsString(code) ==
    CASE code = RC_OK -> "OK"
      [] code = RC_SessionAlreadyOpen -> "SessionAlreadyOpen"
      [] code = FR_Fuji_DeviceBusy -> "DeviceBusy"
      [] code = FR_Fuji_InvalidParameter -> "InvalidParameter"
      [] OTHER -> "Unknown"

Mut_WasSuccessfull_NoDevicePropValue(code) ==
    code = RC_OK \/ code = RC_SessionAlreadyOpen

FujiOperationResponsePacket_WasSuccessfull(code) ==
    \/ code = RC_OK
    \/ code = RC_SessionAlreadyOpen
    \/ code = RC_Fuji_DevicePropValue

FujiOperationResponsePacket_ReasonAsError(code) ==
    [kind |-> "errorString", msg |-> OperationResponseCodeAsString(code), code |-> code]

FujiOperationResponsePacketOne_WasSuccessfull(code) ==
    \/ code = RC_OK
    \/ code = RC_SessionAlreadyOpen
    \/ code = RC_Fuji_DevicePropValue

FujiOperationResponsePacketOne_ReasonAsError(code) ==
    [kind |-> "errorString", msg |-> OperationResponseCodeAsString(code), code |-> code]

\* Client.incrementTransactionId. One handshake increments at most five times
\* from InitialTransactionId, far below the 32-bit wrap.
incrementTransactionId(t) == t + 1

----------------------------------------------------------------------------
(* The responder's choices *)

Codes ==
    UNION {{c - d, c + d} : c \in {RC_OK, RC_SessionAlreadyOpen, RC_Fuji_DevicePropValue},
                            d \in 0..CodeSpread}
    \cup {FR_Fuji_DeviceBusy, FR_Fuji_InvalidParameter}

AppVersions == {PM_Fuji_AppVersion + k : k \in 0..MaxVersionDelta}

----------------------------------------------------------------------------
(* History *)

SendEvent(pkt) == [type |-> "send", pkt |-> pkt]

\* into: "p" or "po"; ok: what WasSuccessfull answered for the packet read.
RecvEvent(into, code, param, ok) ==
    [type |-> "recv", into |-> into, code |-> code, param |-> param, ok |-> ok]

----------------------------------------------------------------------------
\* The zero value of FujiInitCommandRequestPacket.
NoInitReq == [ProtocolVersion |-> <<0, 0>>, GUID |-> <<>>, FriendlyName |-> <<>>]

\* No Init Command Request has been built.
PacketIdle ==
    /\ guid = <<>>
    /\ friendlyName = <<>>
    /\ initReq = NoInitReq
    /\ payload = <<>>

\* No command server is running.
CliIdle ==
    /\ cmdFile = "none"
    /\ cmdPc = "idle"
    /\ cmdName = ""
    /\ cmdHandler = ""
    /\ cmdArgs = <<>>
    /\ cmdCalls = <<>>
    /\ cmdOut = <<>>

\* The zero value of a point and of a Widget.
ZeroPoint == [X |-> 0, Y |-> 0]
NoWidget ==
    [Origin |-> ZeroPoint, Dot |-> ZeroPoint, Colour |-> <<0, 0, 0>>, Face |-> "",
     DefaultFace |-> ""]

\* The record of a draw that did not happen.
NoLocals == [i |-> 0, fStop |-> 0, pos |-> 0]
NoDraw == [val |-> 0, drawn |-> <<>>, widget |-> NoWidget, done |-> FALSE]

\* No viewfinder has been constructed.
ViewIdle ==
    /\ vfImage = ZeroPoint
    /\ vfKind = "none"
    /\ widget = NoWidget
    /\ drawPc = "idle"
    /\ drawVal = 0
    /\ drawLocals = NoLocals
    /\ drawn = <<>>
    /\ prevDraw = NoDraw

Init ==
    /\ pc = "Start"
    /\ transactionId = InitialTransactionId
    /\ cmdDataConn = "unopened"
    /\ deferred = <<>>
    /\ wire = <<>>
    /\ inbox = <<>>
    /\ respSeen = 0
    /\ p = ZeroResponse
    /\ po = ZeroResponseOne
    /\ err = NoError
    /\ exitCode = -1
    /\ trace = <<>>
    /\ mainLog = <<>>
    /\ PacketIdle
    /\ CliIdle
    /\ ViewIdle
    /\ responderKind = "any"

----------------------------------------------------------------------------
(* The Command/Data connection helpers of the client *)

\* FujiInitSequence returns e; Dial hands the result to main unchanged.
Return(e) ==
    /\ err' = e
    /\ pc' = "DialReturned"

\* err = c.SendPacketToCmdDataConn(pkt); if err != nil { return err }
SendPacketToCmdDataConn(pkt, next) ==
    \/ /\ wire' = Append(wire, pkt)
       /\ trace' = Append(trace, SendEvent(pkt))
       /\ pc' = next
       /\ err' = err
    \/ /\ Return(SendError)
       /\ UNCHANGED <<wire, trace>>

\* WaitForResponse without the check of p.WasSuccessfull().
Mut_WaitForResponse_IgnoresFailure(next, increment) ==
    \/ /\ inbox # <<>>
       /\ LET code == Head(inbox).OperationResponseCode
              ok == FujiOperationResponsePacket_WasSuccessfull(code)
          IN /\ inbox' = Tail(inbox)
             /\ p' = [OperationResponseCode |-> code]
             /\ trace' = Append(trace, RecvEvent("p", code, 0, ok))
             /\ pc' = next
             /\ err' = err
             /\ transactionId' = IF increment
                                    THEN incrementTransactionId(transactionId)
                                    ELSE transactionId
    \/ /\ Return(WaitError)
       /\ UNCHANGED <<inbox, p, trace, transactionId>>

\* WaitForResponse with the increment made before the error of the wait is
\* looked at.
Mut_WaitForResponse_IncrementsBeforeReturn(next, increment) ==
    \/ /\ inbox # <<>>
       /\ LET code == Head(inbox).OperationResponseCode
              ok == FujiOperationResponsePacket_WasSuccessfull(code)
          IN /\ inbox' = Tail(inbox)
             /\ p' = [OperationResponseCode |-> code]
             /\ trace' = Append(trace, RecvEvent("p", code, 0, ok))
             /\ IF ok
                   THEN /\ pc' = next
                        /\ err' = err
                        /\ transactionId' = IF increment
                                               THEN incrementTransactionId(transactionId)
                                               ELSE transactionId
                   ELSE /\ Return(FujiOperationResponsePacket_ReasonAsError(code))
                        /\ transactionId' = transactionId
    \/ /\ Return(WaitError)
       /\ transactionId' = IF increment
                              THEN incrementTransactionId(transactionId)
                              ELSE transactionId
       /\ UNCHANGED <<inbox, p, trace>>

\* res, err = c.WaitForPacketFromCmdDataConn(p); if err != nil { return err }
\* if !p.WasSuccessfull() { return p.ReasonAsError() }
\* and then, where the code has it, c.incrementTransactionId().
\* A packet longer than p's fixed fields is read whole, its tail dropped.
WaitForResponse(next, increment) ==
    \/ /\ inbox # <<>>
       /\ LET code == Head(inbox).OperationResponseCode
              ok == FujiOperationResponsePacket_WasSuccessfull(code)
          IN /\ inbox' = Tail(inbox)
             /\ p' = [OperationResponseCode |-> code]
             /\ trace' = Append(trace, RecvEvent("p", code, 0, ok))
             /\ IF ok
                   THEN /\ pc' = next
                        /\ err' = err
                        /\ transactionId' = IF increment
                                               THEN incrementTransactionId(transactionId)
                                               ELSE transactionId
                   ELSE /\ Return(FujiOperationResponsePacket_ReasonAsError(code))
                        /\ transactionId' = transactionId
    \/ /\ Return(WaitError)
       /\ UNCHANGED <<inbox, p, trace, transactionId>>

----------------------------------------------------------------------------
(* FujiInitSequence, one action per blocking call *)

\* Opening a session...
SendOpenSession ==
    /\ pc = "SendOpenSession"
    /\ SendPacketToCmdDataConn(NewFujiOpenSessionCommand(transactionId, FujiSessionID),
                               "WaitOpenSession")
    /\ UNCHANGED <<transactionId, cmdDataConn, deferred, inbox, respSeen, p, po, exitCode>>
    /\ UNCHANGED <<mainLog, outsideMain>>

Mut_WaitOpenSession_NoIncrement ==
    /\ pc = "WaitOpenSession"
    /\ WaitForResponse("SendUseInitSequence", FALSE)
    /\ UNCHANGED <<cmdDataConn, deferred, wire, respSeen, po, exitCode>>
    /\ UNCHANGED <<mainLog, outsideMain>>

WaitOpenSession ==
    /\ pc = "WaitOpenSession"
    /\ WaitForResponse("SendUseInitSequence", TRUE)
    /\ UNCHANGED <<cmdDataConn, deferred, wire, respSeen, po, exitCode>>
    /\ UNCHANGED <<mainLog, outsideMain>>

\* Setting correct init sequence number...
SendUseInitSequence ==
    /\ pc = "SendUseInitSequence"
    /\ SendPacketToCmdDataConn(
           FujiOperationRequestPacket(DP_NoDataOrDataIn, OC_SetDevicePropValue,
                                      transactionId, DPC_Fuji_UseInitSequence),
           "SendUseInitSequenceData")
    /\ UNCHANGED <<transactionId, cmdDataConn, deferred, inbox, respSeen, p, po, exitCode>>
    /\ UNCHANGED <<mainLog, outsideMain>>

\* The second packet of the write sent as another request, not as DataOut.
Mut_SendUseInitSequenceData_NoDataOut ==
    /\ pc = "SendUseInitSequenceData"
    /\ SendPacketToCmdDataConn(
           FujiOperationRequestPacket(DP_NoDataOrDataIn, OC_SetDevicePropValue,
                                      transactionId, PM_Fuji_InitSequence),
           "WaitUseInitSequence")
    /\ UNCHANGED <<transactionId, cmdDataConn, deferred, inbox, respSeen, p, po, exitCode>>
    /\ UNCHANGED <<mainLog, outsideMain>>

SendUseInitSequenceData ==
    /\ pc = "SendUseInitSequenceData"
    /\ SendPacketToCmdDataConn(
           FujiOperationRequestPacket(DP_DataOut, OC_SetDevicePropValue,
                                      transactionId, PM_Fuji_InitSequence),
           "WaitUseInitSequence")
    /\ UNCHANGED <<transactionId, cmdDataConn, deferred, inbox, respSeen, p, po, exitCode>>
    /\ UNCHANGED <<mainLog, outsideMain>>

\* Please accept the new connection request on the camera...
Mut_WaitUseInitSequence_NoWait ==
    /\ pc = "WaitUseInitSequence"
    /\ pc' = "SendGetAppVersion"
    /\ transactionId' = incrementTransactionId(transactionId)
    /\ UNCHANGED <<cmdDataConn, deferred, wire, inbox, respSeen, p, po, err, exitCode, trace>>
    /\ UNCHANGED <<mainLog, outsideMain>>

WaitUseInitSequence ==
    /\ pc = "WaitUseInitSequence"
    /\ WaitForResponse("SendGetAppVersion", TRUE)
    /\ UNCHANGED <<cmdDataConn, deferred, wire, respSeen, po, exitCode>>
    /\ UNCHANGED <<mainLog, outsideMain>>

\* Getting current minimum application version...
SendGetAppVersion ==
    /\ pc = "SendGetAppVersion"
    /\ SendPacketToCmdDataConn(
           FujiOperationRequestPacket(DP_NoDataOrDataIn, OC_GetDevicePropValue,
                                      transactionId, DPC_Fuji_AppVersion),
           "WaitAppVersionValue")
    /\ UNCHANGED <<transactionId, cmdDataConn, deferred, inbox, respSeen, p, po, exitCode>>
    /\ UNCHANGED <<mainLog, outsideMain>>

\* The packet that carries the value taken without a look at its code.
Mut_WaitAppVersionValue_IgnoresFailure ==
    /\ pc = "WaitAppVersionValue"
    /\ \/ /\ inbox # <<>>
          /\ Head(inbox).Params # <<>>
          /\ LET code == Head(inbox).OperationResponseCode
                 param == Head(inbox).Params[1]
                 ok == FujiOperationResponsePacketOne_WasSuccessfull(code)
             IN /\ inbox' = Tail(inbox)
                /\ po' = [OperationResponseCode |-> code, Parameter1 |-> param]
                /\ trace' = Append(trace, RecvEvent("po", code, param, ok))
                /\ pc' = "WaitGetAppVersion"
                /\ err' = err
       \/ /\ inbox # <<>>
          /\ Head(inbox).Params = <<>>
          /\ inbox' = Tail(inbox)
          /\ Return(WaitError)
          /\ UNCHANGED <<po, trace>>
       \/ /\ Return(WaitError)
          /\ UNCHANGED <<inbox, po, trace>>
    /\ UNCHANGED <<transactionId, cmdDataConn, deferred, wire, respSeen, p, exitCode>>
    /\ UNCHANGED <<mainLog, outsideMain>>

\* po := new(FujiOperationResponsePacketOne); the packet that carries the value.
\* A packet shorter than po's fixed fields cannot be read into it.
WaitAppVersionValue ==
    /\ pc = "WaitAppVersionValue"
    /\ \/ /\ inbox # <<>>
          /\ Head(inbox).Params # <<>>
          /\ LET code == Head(inbox).OperationResponseCode
                 param == Head(inbox).Params[1]
                 ok == FujiOperationResponsePacketOne_WasSuccessfull(code)
             IN /\ inbox' = Tail(inbox)
                /\ po' = [OperationResponseCode |-> code, Parameter1 |-> param]
                /\ trace' = Append(trace, RecvEvent("po", code, param, ok))
                /\ IF ok
                      THEN /\ pc' = "WaitGetAppVersion"
                           /\ err' = err
                      ELSE Return(FujiOperationResponsePacketOne_ReasonAsError(code))
       \/ /\ inbox # <<>>
          /\ Head(inbox).Params = <<>>
          /\ inbox' = Tail(inbox)
          /\ Return(WaitError)
          /\ UNCHANGED <<po, trace>>
       \/ /\ Return(WaitError)
          /\ UNCHANGED <<inbox, po, trace>>
    /\ UNCHANGED <<transactionId, cmdDataConn, deferred, wire, respSeen, p, exitCode>>
    /\ UNCHANGED <<mainLog, outsideMain>>

Mut_WaitGetAppVersion_NoIncrement ==
    /\ pc = "WaitGetAppVersion"
    /\ WaitForResponse("SendSetAppVersion", FALSE)
    /\ UNCHANGED <<cmdDataConn, deferred, wire, respSeen, po, exitCode>>
    /\ UNCHANGED <<mainLog, outsideMain>>

WaitGetAppVersion ==
    /\ pc = "WaitGetAppVersion"
    /\ WaitForResponse("SendSetAppVersion", TRUE)
    /\ UNCHANGED <<cmdDataConn, deferred, wire, respSeen, po, exitCode>>
    /\ UNCHANGED <<mainLog, outsideMain>>

\* Acknowledging current 'other version'
SendSetAppVersion ==
    /\ pc = "SendSetAppVersion"
    /\ SendPacketToCmdDataConn(
           FujiOperationRequestPacket(DP_NoDataOrDataIn, OC_SetDevicePropValue,
                                      transactionId, DPC_Fuji_AppVersion),
           "SendSetAppVersionData")
    /\ UNCHANGED <<transactionId, cmdDataConn, deferred, inbox, respSeen, p, po, exitCode>>
    /\ UNCHANGED <<mainLog, outsideMain>>

\* The echo replaced by the constant PM_Fuji_AppVersion.
Mut_SendSetAppVersionData_Constant ==
    /\ pc = "SendSetAppVersionData"
    /\ SendPacketToCmdDataConn(
           FujiOperationRequestPacket(DP_DataOut, OC_SetDevicePropValue,
                                      transactionId, PM_Fuji_AppVersion),
           "WaitSetAppVersion")
    /\ UNCHANGED <<transactionId, cmdDataConn, deferred, inbox, respSeen, p, po, exitCode>>
    /\ UNCHANGED <<mainLog, outsideMain>>

\* The DataOut packet built after an increment of the TransactionID.
Mut_SendSetAppVersionData_NextTransactionId ==
    /\ pc = "SendSetAppVersionData"
    /\ SendPacketToCmdDataConn(
           FujiOperationRequestPacket(DP_DataOut, OC_SetDevicePropValue,
                                      incrementTransactionId(transactionId), po.Parameter1),
           "WaitSetAppVersion")
    /\ UNCHANGED <<transactionId, cmdDataConn, deferred, inbox, respSeen, p, po, exitCode>>
    /\ UNCHANGED <<mainLog, outsideMain>>

SendSetAppVersionData ==
    /\ pc = "SendSetAppVersionData"
    /\ SendPacketToCmdDataConn(
           FujiOperationRequestPacket(DP_DataOut, OC_SetDevicePropValue,
                                      transactionId, po.Parameter1),
           "WaitSetAppVersion")
    /\ UNCHANGED <<transactionId, cmdDataConn, deferred, inbox, respSeen, p, po, exitCode>>
    /\ UNCHANGED <<mainLog, outsideMain>>

\* The step closes the Command/Data connection itself when it returns an error.
Mut_WaitSetAppVersion_ClosesOnFailure ==
    /\ pc = "WaitSetAppVersion"
    /\ WaitForResponse("SendInitiateOpenCapture", TRUE)
    /\ cmdDataConn' = IF pc' = "DialReturned" THEN "closed" ELSE cmdDataConn
    /\ UNCHANGED <<deferred, wire, respSeen, po, exitCode>>
    /\ UNCHANGED <<mainLog, outsideMain>>

WaitSetAppVersion ==
    /\ pc = "WaitSetAppVersion"
    /\ WaitForResponse("SendInitiateOpenCapture", TRUE)
    /\ UNCHANGED <<cmdDataConn, deferred, wire, respSeen, po, exitCode>>
    /\ UNCHANGED <<mainLog, outsideMain>>

\* Initiating open capture...
SendInitiateOpenCapture ==
    /\ pc = "SendInitiateOpenCapture"
    /\ SendPacketToCmdDataConn(
           FujiOperationRequestPacket(DP_NoDataOrDataIn, OC_InitiateOpenCapture,
                                      transactionId, 0),
           "WaitInitiateOpenCapture")
    /\ UNCHANGED <<transactionId, cmdDataConn, deferred, inbox, respSeen, p, po, exitCode>>
    /\ UNCHANGED <<mainLog, outsideMain>>

\* The increment that follows is commented out in the source: return nil.
WaitInitiateOpenCapture ==
    /\ pc = "WaitInitiateOpenCapture"
    /\ WaitForResponse("DialReturned", FALSE)
    /\ UNCHANGED <<cmdDataConn, deferred, wire, respSeen, po, exitCode>>
    /\ UNCHANGED <<mainLog, outsideMain>>

FujiInitSequence ==
    \/ SendOpenSession
    \/ WaitOpenSession
    \/ SendUseInitSequence
    \/ SendUseInitSequenceData
    \/ WaitUseInitSequence
    \/ SendGetAppVersion
    \/ WaitAppVersionValue
    \/ WaitGetAppVersion
    \/ SendSetAppVersion
    \/ SendSetAppVersionData
    \/ WaitSetAppVersion
    \/ SendInitiateOpenCapture
    \/ WaitInitiateOpenCapture

----------------------------------------------------------------------------
(* main and Dial *)

\* os.Exit(code): the process ends at once; deferred calls are not run.
OsExit(code) ==
    /\ pc' = "Exited"
    /\ exitCode' = code
    /\ deferred' = deferred

\* if noArgs := len(os.Args) < 2; noArgs || help == true { usage(); os.Exit(exit) }
MainUsage ==
    /\ pc = "Start"
    /\ \E noArgs \in BOOLEAN, help \in BOOLEAN :
          /\ noArgs \/ help
          /\ OsExit(IF noArgs THEN 1 ELSE 0)
          /\ mainLog' = Append(mainLog, IF noArgs THEN "noArgs" ELSE "help")
    /\ UNCHANGED <<transactionId, cmdDataConn, wire, inbox, respSeen, p, po, err, trace>>
    /\ UNCHANGED outsideMain

\* if version == true { ...; os.Exit(0) }
MainVersion ==
    /\ pc = "Start"
    /\ OsExit(0)
    /\ mainLog' = Append(mainLog, "version")
    /\ UNCHANGED <<transactionId, cmdDataConn, wire, inbox, respSeen, p, po, err, trace>>
    /\ UNCHANGED outsideMain

\* cl, err := ip.NewClient(...); if err != nil { os.Exit(4) }; defer cl.Close()
MainNewClient ==
    /\ pc = "Start"
    /\ \/ /\ pc' = "Dial"
          /\ deferred' = <<"cl.Close">> \o deferred
          /\ exitCode' = exitCode
          /\ mainLog' = Append(mainLog, "NewClient")
       \/ /\ OsExit(4)
          /\ mainLog' = Append(mainLog, "NewClient failed")
    /\ UNCHANGED <<transactionId, cmdDataConn, wire, inbox, respSeen, p, po, err, trace>>
    /\ UNCHANGED outsideMain

\* cl.Dial(): set up the Command/Data connection, then run the vendor's
\* initialisation sequence on it; a failure is returned to the caller, who owns
\* the sockets.
Dial ==
    /\ pc = "Dial"
    /\ \/ /\ cmdDataConn' = "open"
          /\ pc' = "SendOpenSession"
          /\ err' = err
       \/ /\ Return(DialError)
          /\ cmdDataConn' = cmdDataConn
    /\ UNCHANGED <<transactionId, deferred, wire, inbox, respSeen, p, po, exitCode, trace>>
    /\ UNCHANGED <<mainLog, outsideMain>>

\* err = cl.Dial(); if err != nil { os.Exit(5) }; if server == true { launchServer() }
\* A failed Dial reported with the exit code of a failed NewClient.
Mut_MainAfterDial_ExitCodeOfNewClient ==
    /\ pc = "DialReturned"
    /\ IF err # NoError
          THEN /\ OsExit(4)
               /\ mainLog' = Append(mainLog, "Dial failed")
          ELSE \E server \in BOOLEAN :
                  IF server
                     THEN /\ pc' = "Server"
                          /\ mainLog' = mainLog \o <<"Dial", "launchServer">>
                          /\ UNCHANGED <<exitCode, deferred>>
                     ELSE /\ OsExit(0)
                          /\ mainLog' = Append(mainLog, "Dial")
    /\ UNCHANGED <<transactionId, cmdDataConn, wire, inbox, respSeen, p, po, err, trace>>
    /\ UNCHANGED outsideMain

MainAfterDial ==
    /\ pc = "DialReturned"
    /\ IF err # NoError
          THEN /\ OsExit(5)
               /\ mainLog' = Append(mainLog, "Dial failed")
          ELSE \E server \in BOOLEAN :
                  IF server
                     THEN /\ pc' = "Server"
                          /\ mainLog' = mainLog \o <<"Dial", "launchServer">>
                          /\ UNCHANGED <<exitCode, deferred>>
                     ELSE /\ OsExit(0)
                          /\ mainLog' = Append(mainLog, "Dial")
    /\ UNCHANGED <<transactionId, cmdDataConn, wire, inbox, respSeen, p, po, err, trace>>
    /\ UNCHANGED outsideMain

\* launchServer() returns; os.Exit(0)
MainServerReturned ==
    /\ pc = "Server"
    /\ OsExit(0)
    /\ UNCHANGED <<transactionId, cmdDataConn, wire, inbox, respSeen, p, po, err, trace>>
    /\ UNCHANGED <<mainLog, outsideMain>>

Main ==
    \/ MainUsage
    \/ MainVersion
    \/ MainNewClient
    \/ Dial
    \/ MainAfterDial
    \/ MainServerReturned

----------------------------------------------------------------------------
(* The responder *)

\* The first packet of a two-part write: the responder waits for the DataOut packet.
AwaitsData(pkt) ==
    /\ pkt.OperationCode = OC_SetDevicePropValue
    /\ pkt.DataPhaseInfo = DP_NoDataOrDataIn

ResponderReads ==
    /\ pc # "Exited"
    /\ cmdDataConn = "open"
    /\ respSeen < Len(wire)
    /\ respSeen' = respSeen + 1
    /\ UNCHANGED <<mainLog, outsideMain>>

\* The request part of a two-part write arrived: nothing to answer yet.
ResponderAwaitsData ==
    /\ ResponderReads
    /\ AwaitsData(wire[respSeen + 1])
    /\ UNCHANGED <<pc, transactionId, cmdDataConn, deferred, wire, inbox, p, po, err,
                   exitCode, trace>>
    /\ UNCHANGED <<mainLog, outsideMain>>

\* An operation is complete: one response packet, with any code.
ResponderResponds ==
    /\ ResponderReads
    /\ ~AwaitsData(wire[respSeen + 1])
    /\ \E c \in Codes : inbox' = Append(inbox, ResponsePacket(c, <<>>))
    /\ UNCHANGED <<pc, transactionId, cmdDataConn, deferred, wire, p, po, err,
                   exitCode, trace>>
    /\ UNCHANGED <<mainLog, outsideMain>>

\* GetDevicePropValue: a packet that carries the value, then the response.
ResponderSendsValue ==
    /\ ResponderReads
    /\ wire[respSeen + 1].OperationCode = OC_GetDevicePropValue
    /\ \E c1 \in Codes, v \in AppVersions, c2 \in Codes :
          inbox' = inbox \o <<ResponsePacket(c1, <<v>>), ResponsePacket(c2, <<>>)>>
    /\ UNCHANGED <<pc, transactionId, cmdDataConn, deferred, wire, p, po, err,
                   exitCode, trace>>
    /\ UNCHANGED <<mainLog, outsideMain>>

Responder ==
    \/ ResponderAwaitsData
    \/ ResponderResponds
    \/ ResponderSendsValue

----------------------------------------------------------------------------
Next ==
    \/ Main
    \/ FujiInitSequence
    \/ Responder

Spec == Init /\ [][Next]_vars

----------------------------------------------------------------------------
(* Reading the history *)

IsSend(e) == e.type = "send"
IsRecv(e) == e.type = "recv"

\* The first packet of an operation (its request), as opposed to its DataOut part.
IsOpStart(e) == IsSend(e) /\ e.pkt.DataPhaseInfo = DP_NoDataOrDataIn

\* A packet read into p: the response that ends an operation.
IsResponse(e) == IsRecv(e) /\ e.into = "p"

Recvs == SelectSeq(trace, IsRecv)
OpStarts(t) == SelectSeq(t, IsOpStart)
Last(s) == s[Len(s)]

\* The TransactionID carried by the request of the last operation started.
LastOpTid == Last(OpStarts(trace)).pkt.TransactionID

StrictlyIncreasing(s) == \A i \in 1..(Len(s) - 1) : s[i] < s[i + 1]

SuccessCodes == {RC_OK, RC_SessionAlreadyOpen, RC_Fuji_DevicePropValue}

\* What an event is, leaving out what the responder or the counter decides.
Shape(e) ==
    IF IsSend(e)
       THEN <<"send", e.pkt.OperationCode, e.pkt.DataPhaseInfo,
              IF e.pkt.DataPhaseInfo = DP_NoDataOrDataIn THEN e.pkt.Parameter1 ELSE 0>>
       ELSE <<e.into, 0, 0, 0>>

\* The dialogue of section 4.5, state by state.
HandshakeOrder ==
    << <<"send", OC_OpenSession, DP_NoDataOrDataIn, FujiSessionID>>,
       <<"p", 0, 0, 0>>,
       <<"send", OC_SetDevicePropValue, DP_NoDataOrDataIn, DPC_Fuji_UseInitSequence>>,
       <<"send", OC_SetDevicePropValue, DP_DataOut, 0>>,
       <<"p", 0, 0, 0>>,
       <<"send", OC_GetDevicePropValue, DP_NoDataOrDataIn, DPC_Fuji_AppVersion>>,
       <<"po", 0, 0, 0>>,
       <<"p", 0, 0, 0>>,
       <<"send", OC_SetDevicePropValue, DP_NoDataOrDataIn, DPC_Fuji_AppVersion>>,
       <<"send", OC_SetDevicePropValue, DP_DataOut, 0>>,
       <<"p", 0, 0, 0>>,
       <<"send", OC_InitiateOpenCapture, DP_NoDataOrDataIn, 0>>,
       <<"p", 0, 0, 0>> >>

\* FujiInitSequence has returned (to Dial, and Dial to main).
Returned == pc = "DialReturned" /\ trace # <<>>

----------------------------------------------------------------------------
(* Claims *)

\* The responder of scenario 1: OK to OpenSession, OK to SetDevicePropValue(0xDF01),
\* the value 0x00020001 for GetDevicePropValue(0xDF24) and OK for it, OK to the
\* echo, OK to InitiateOpenCapture.
Scenario1 ==
    /\ Len(Recvs) = 6
    /\ Recvs[1].code = RC_OK
    /\ Recvs[2].code = RC_OK
    /\ Recvs[3].code = RC_Fuji_DevicePropValue
    /\ Recvs[3].param = PM_Fuji_AppVersion
    /\ Recvs[4].code = RC_OK
    /\ Recvs[5].code = RC_OK
    /\ Recvs[6].code = RC_OK

\* C1: against the responder of scenario 1, FujiInitSequence returns without error
\* and the client's TransactionID is 5.
C1_HandshakeSuccess ==
    (Returned /\ Scenario1) => (err = NoError /\ transactionId = 5)

\* C2: the handshake states are entered in the strict order OpenSession,
\* DeclareInitSequence, NegotiateAppVersion, InitiateOpenCapture: what was sent and
\* received so far is always a prefix of that dialogue, and a request is sent only
\* when every response read before it was judged successful.
C2_StrictOrder ==
    /\ Len(trace) <= Len(HandshakeOrder)
    /\ \A i \in 1..Len(trace) :
          /\ Shape(trace[i]) = HandshakeOrder[i]
          /\ IsSend(trace[i]) => \A j \in 1..(i - 1) : IsRecv(trace[j]) => trace[j].ok

C2_Witness ==
    /\ Returned
    /\ Len(trace) = Len(HandshakeOrder)
    /\ err = NoError

\* C3: after an unsuccessful response no later handshake request is sent and the
\* Command/Data connection ends up closed.
C3_DeviationClosesConnection ==
    (pc = "Exited" /\ \E i \in 1..Len(trace) : IsRecv(trace[i]) /\ ~trace[i].ok)
        => /\ \A i \in 1..Len(trace) :
                 (IsRecv(trace[i]) /\ ~trace[i].ok) => i = Len(trace)
           /\ cmdDataConn = "closed"

\* The error kind and message section 7 and scenario 2 name for FR_Fuji_DeviceBusy.
VendorError(msg, code) == [kind |-> "VendorError", msg |-> msg, code |-> code]

\* C4: when the responder answers 0x2019 to the SetDevicePropValue(0xDF01) step, the
\* handshake fails with VendorError("device busy; set camera to 'change' or 'retry'").
C4_DeviceBusyIsVendorError ==
    (Returned /\ Len(Recvs) = 2 /\ Recvs[2].code = FR_Fuji_DeviceBusy)
        => err = VendorError("device busy; set camera to 'change' or 'retry'",
                             FR_Fuji_DeviceBusy)

\* C5: no step decreases the TransactionID, and the TransactionIDs carried by the
\* requests of successive operations are strictly increasing.
C5_TransactionIdMonotonic ==
    [][ /\ transactionId' >= transactionId
        /\ StrictlyIncreasing([i \in 1..Len(OpStarts(trace')) |->
                                  OpStarts(trace')[i].pkt.TransactionID]) ]_vars

C5_Witness ==
    /\ Len(OpStarts(trace)) = 5
    /\ LastOpTid > OpStarts(trace)[1].pkt.TransactionID

\* C6: once the response of an operation is consumed and judged successful, the
\* TransactionID is one more than the TransactionID its request carried; this
\* includes the final InitiateOpenCapture.
C6_IncrementPerRoundTrip ==
    (trace # <<>> /\ IsResponse(Last(trace)) /\ Last(trace).ok)
        => transactionId = LastOpTid + 1

\* C7: when a response was read and its code indicates failure, the TransactionID
\* is incremented all the same before the handshake returns the error.
C7_IncrementOnFailure ==
    (Returned /\ IsRecv(Last(trace)) /\ ~Last(trace).ok)
        => transactionId = LastOpTid + 1

\* C8: the TransactionID is 1 immediately after the OpenSession step completes, and
\* the SetDevicePropValue(0xDF01) request carries TransactionID 1.
C8_FirstTransactionIdIsOne ==
    /\ pc = "SendUseInitSequence" => transactionId = 1
    /\ \A i \in 1..Len(trace) :
          (IsSend(trace[i]) /\ trace[i].pkt.OperationCode = OC_SetDevicePropValue
                            /\ Len(OpStarts(SubSeq(trace, 1, i))) = 2)
              => trace[i].pkt.TransactionID = 1

C8_Witness ==
    /\ pc = "WaitUseInitSequence"
    /\ Len(trace) = 4

\* C9: no two operations are in flight on the Command/Data connection: at most one
\* operation has its request sent and its response not consumed, and when the
\* client is about to send the request of a new operation, the responder owes
\* nothing and no packet is unread.
C9_OneOperationInFlight ==
    /\ Len(OpStarts(trace)) - Len(SelectSeq(trace, IsResponse)) \in {0, 1}
    /\ pc \in {"SendOpenSession", "SendUseInitSequence", "SendGetAppVersion",
               "SendSetAppVersion", "SendInitiateOpenCapture"}
          => /\ inbox = <<>>
             /\ respSeen = Len(wire)
             /\ Len(OpStarts(trace)) = Len(SelectSeq(trace, IsResponse))

C9_Witness ==
    /\ pc = "SendInitiateOpenCapture"
    /\ Len(OpStarts(trace)) = 4

\* C10: WasSuccessfull answers true exactly for OK, SessionAlreadyOpen and 0x1015,
\* and the zero-parameter and the one-parameter variant agree on every code.
C10_WasSuccessfull ==
    /\ \A i \in 1..Len(trace) :
          IsRecv(trace[i]) => (trace[i].ok <=> trace[i].code \in SuccessCodes)
    /\ \A c \in Codes :
          FujiOperationResponsePacket_WasSuccessfull(c)
              = FujiOperationResponsePacketOne_WasSuccessfull(c)

C10_Witness ==
    /\ Len(Recvs) = 4
    /\ Recvs[3].into = "po" /\ Recvs[3].code = RC_Fuji_DevicePropValue /\ Recvs[3].ok
    /\ Recvs[4].into = "p" /\ Recvs[4].code = RC_Fuji_DevicePropValue + 1 /\ ~Recvs[4].ok

----------------------------------------------------------------------------
(* Claims about the single steps of the handshake *)

\* C11: the OpenSession step sends OpenSession with session id 1 and proceeds to
\* the next state only if the response code is OK or SessionAlreadyOpen.
C11_OpenSessionExpectsOkOrAlreadyOpen ==
    /\ Len(trace) >= 1 =>
          /\ trace[1].pkt.OperationCode = OC_OpenSession
          /\ trace[1].pkt.Parameter1 = 1
    /\ Len(trace) >= 3 => trace[2].code \in {RC_OK, RC_SessionAlreadyOpen}

\* C12: InitiateOpenCapture is sent with NoDataOrDataIn and the handshake reaches
\* Ready only if its response code is OK.
C12_InitiateOpenCaptureExpectsOk ==
    /\ Len(trace) >= 12 => trace[12].pkt.DataPhaseInfo = DP_NoDataOrDataIn
    /\ (Returned /\ err = NoError) =>
          /\ Len(trace) = 13
          /\ trace[13].code = RC_OK

\* C13: DeclareInitSequence is a two-part write: SetDevicePropValue with
\* Parameter1 = 0xDF01 and NoDataOrDataIn, then a DataOut packet carrying 5, and
\* the client waits for the response only after both were sent.
C13_DeclareInitSequenceTwoPartWrite ==
    /\ (pc = "WaitUseInitSequence" \/ Len(trace) >= 5) =>
          /\ Len(trace) >= 4
          /\ IsSend(trace[3]) /\ IsSend(trace[4])
          /\ trace[3].pkt.OperationCode = OC_SetDevicePropValue
          /\ trace[3].pkt.DataPhaseInfo = DP_NoDataOrDataIn
          /\ trace[3].pkt.Parameter1 = DPC_Fuji_UseInitSequence
          /\ trace[4].pkt.OperationCode = OC_SetDevicePropValue
          /\ trace[4].pkt.DataPhaseInfo = DP_DataOut
          /\ trace[4].pkt.Parameter1 = 5
    /\ pc = "SendUseInitSequenceData" => (Len(trace) = 3 /\ IsSend(trace[3]))

C13_Witness ==
    /\ pc = "SendGetAppVersion"
    /\ Len(trace) = 5

\* C14: the DataOut packet of SetDevicePropValue(0xDF24) carries exactly the value
\* the responder reported as first parameter for GetDevicePropValue(0xDF24).
C14_EchoesDeviceValue ==
    Len(trace) >= 10 =>
        /\ trace[7].into = "po"
        /\ trace[10].pkt.DataPhaseInfo = DP_DataOut
        /\ trace[10].pkt.Parameter1 = trace[7].param

C14_Witness ==
    /\ Len(trace) >= 10
    /\ trace[7].param # PM_Fuji_AppVersion

VendorFailureCodes == {FR_Fuji_DeviceBusy, FR_Fuji_InvalidParameter}

\* C15: when a step's response carries a vendor failure code, FujiInitSequence
\* returns an error, nothing is sent or read after that response, and the
\* Command/Data connection is left open (the handshake closes nothing).
C15_VendorErrorLeavesSockets ==
    \A i \in 1..Len(trace) :
        (IsRecv(trace[i]) /\ ~trace[i].ok /\ trace[i].code \in VendorFailureCodes)
            => /\ i = Len(trace)
               /\ pc \in {"DialReturned", "Exited"}
               /\ err.kind = "errorString"
               /\ err.code = trace[i].code
               /\ Len(wire) = Len(SelectSeq(trace, IsSend))
               /\ cmdDataConn = "open"

C15_Witness ==
    /\ pc = "DialReturned"
    /\ Len(trace) = 11
    /\ trace[11].code = FR_Fuji_DeviceBusy

\* C16: a read that fails while the client awaits the response of the
\* DeclareInitSequence step (nothing has arrived: the timeout) is reported as
\* UserTimeout, and a read failure at any other step is not.
C16_UserTimeout ==
    /\ (Returned /\ Len(trace) = 4 /\ inbox = <<>>) => err.kind = "UserTimeout"
    /\ (Returned /\ Len(trace) # 4 /\ err.kind = "wait") => err.kind # "UserTimeout"

\* Membership in main's history.
Logged(x) == \E i \in 1..Len(mainLog) : mainLog[i] = x

\* x is in main's history and y is in it at an earlier place.
LoggedAfter(x, y) ==
    \A i \in 1..Len(mainLog) :
        mainLog[i] = x => \E j \in 1..(i - 1) : mainLog[j] = y

\* C18: main exits with 1 when no arguments are given, with 4 when the client
\* construction fails, with 5 when Dial fails and with 0 on success (help and
\* version included); these are the only exit codes.  Dial is attempted only
\* after the client was constructed, and the server loop is launched only
\* after Dial succeeded.
C18_ExitCodes ==
    /\ exitCode \in {-1, 0, 1, 4, 5}
    /\ (pc = "Exited") = (exitCode # -1)
    /\ pc = "Exited" =>
          exitCode = (CASE Logged("noArgs") -> 1
                        [] Logged("NewClient failed") -> 4
                        [] Logged("Dial failed") \/ err # NoError -> 5
                        [] OTHER -> 0)
    /\ Logged("Dial failed") = (pc = "Exited" /\ err # NoError)
    /\ (cmdDataConn # "unopened" \/ err # NoError \/ trace # <<>>) =>
          /\ Logged("NewClient")
          /\ deferred = <<"cl.Close">>
    /\ LoggedAfter("Dial", "NewClient") /\ LoggedAfter("Dial failed", "NewClient")
    /\ (pc = "Server" \/ Logged("launchServer")) =>
          /\ LoggedAfter("launchServer", "Dial")
          /\ err = NoError
          /\ cmdDataConn = "open"
          /\ Len(trace) = Len(HandshakeOrder)

\* Every exit code has been produced, the failure of Dial by a failed handshake.
C18_Witness ==
    /\ pc = "Exited"
    /\ exitCode = 5
    /\ Logged("Dial failed")
    /\ trace # <<>>

-----------------------------------------------------------------------------
(* The Vendor-F Init Command Request (ip/packets_fuji.go, lines 49-111)      *)
(* A uint32 that does not fit the checker's integers is the pair of its      *)
(* 16-bit halves <<high, low>>; a byte string is a sequence of 0..255; a      *)
(* string is the sequence of its UTF-16 code units.                           *)

\* Bounds: the GUIDs tried are scenario 6's and the ramps (i * k) % 256 for k
\* in 0..MaxGuidSeed; the names tried have at most MaxNameLen code units.
MaxGuidSeed == 2
MaxNameLen == 2

\* PV_Fuji uint32 = 0x8F53E4F2
PV_Fuji_Hi == 36691     \* 0x8F53
PV_Fuji_Lo == 58610     \* 0xE4F2
PV_Fuji == <<PV_Fuji_Hi, PV_Fuji_Lo>>

\* The type code of the Init Command Request packet in PTP/IP.
PKT_InitCommandRequest == 1

\* ada5485d-87b2-7f0b-d3d5-ded00278a8c0, as 16 raw bytes
Scenario6GUID ==
    <<173, 165, 72, 93, 135, 178, 127, 11, 211, 213, 222, 208, 2, 120, 168, 192>>

GUIDs == {Scenario6GUID} \cup {[i \in 1..16 |-> (i * k) % 256] : k \in 0..MaxGuidSeed}

\* 'A', e-acute and a code unit whose high byte is not zero
NameUnits == {65, 233, 9786}

FriendlyNames == UNION {[1..n -> NameUnits] : n \in 0..MaxNameLen}

\* One 16-bit value, low byte first.
Uint16LE(x) == <<x % 256, x \div 256>>

\* A string as UTF-16LE code units with the terminating U+0000.
RECURSIVE UTF16LE(_)
UTF16LE(str) ==
    IF str = <<>> THEN <<0, 0>>
    ELSE Uint16LE(Head(str)) \o UTF16LE(Tail(str))

\* One field on the wire: integers little-endian, identifiers verbatim.
MarshalField(f) ==
    CASE f.type = "uint32" -> Uint16LE(f.val[2]) \o Uint16LE(f.val[1])
      [] f.type = "uuid"   -> f.val
      [] f.type = "string" -> UTF16LE(f.val)

\* internal.MarshalLittleEndian: the fields of the struct in declared order.
RECURSIVE MarshalLittleEndian(_)
MarshalLittleEndian(fields) ==
    IF fields = <<>> THEN <<>>
    ELSE MarshalField(Head(fields)) \o MarshalLittleEndian(Tail(fields))

\* func (ficrp *FujiInitCommandRequestPacket) PacketType() PacketType
FujiInitCommandRequestPacket_PacketType(ficrp) == PKT_InitCommandRequest

\* The payload in the layout of the standard: GUID, FriendlyName, ProtocolVersion.
Mut_Payload_StandardLayout(ficrp) ==
    MarshalLittleEndian(<<[type |-> "uuid",   val |-> ficrp.GUID],
                          [type |-> "string", val |-> ficrp.FriendlyName],
                          [type |-> "uint32", val |-> ficrp.ProtocolVersion]>>)

\* func (ficrp *FujiInitCommandRequestPacket) Payload() []byte, over
\* struct { ProtocolVersion uint32; GUID uuid.UUID; FriendlyName string }
FujiInitCommandRequestPacket_Payload(ficrp) ==
    MarshalLittleEndian(<<[type |-> "uint32", val |-> ficrp.ProtocolVersion],
                          [type |-> "uuid",   val |-> ficrp.GUID],
                          [type |-> "string", val |-> ficrp.FriendlyName]>>)

\* func NewFujiInitCommandRequestPacket(guid uuid.UUID, friendlyName string)
NewFujiInitCommandRequestPacket(g, name) ==
    [ProtocolVersion |-> PV_Fuji, GUID |-> g, FriendlyName |-> name]

\* Dial has been entered by a client constructed with some GUID and name.
InitPacket ==
    /\ pc = "Dial"
    /\ transactionId = InitialTransactionId
    /\ cmdDataConn = "unopened"
    /\ deferred = <<"cl.Close">>
    /\ wire = <<>>
    /\ inbox = <<>>
    /\ respSeen = 0
    /\ p = ZeroResponse
    /\ po = ZeroResponseOne
    /\ err = NoError
    /\ exitCode = -1
    /\ trace = <<>>
    /\ mainLog = <<"NewClient">>
    /\ guid \in GUIDs
    /\ friendlyName \in FriendlyNames
    /\ initReq = NoInitReq
    /\ payload = <<>>
    /\ CliIdle
    /\ ViewIdle
    /\ responderKind = "any"

\* The client builds the Init Command Request of its vendor.
BuildInitCommandRequest ==
    /\ initReq = NoInitReq
    /\ initReq' = NewFujiInitCommandRequestPacket(guid, friendlyName)
    /\ UNCHANGED <<guid, friendlyName, payload>>
    /\ UNCHANGED outsidePacket

\* The client serialises the packet to write it to the Command/Data connection.
MarshalInitCommandRequest ==
    /\ initReq # NoInitReq
    /\ payload = <<>>
    /\ payload' = FujiInitCommandRequestPacket_Payload(initReq)
    /\ UNCHANGED <<guid, friendlyName, initReq>>
    /\ UNCHANGED outsidePacket

NextPacket ==
    \/ BuildInitCommandRequest
    \/ MarshalInitCommandRequest

SpecPacket == InitPacket /\ [][NextPacket]_vars

\* C17: the packet NewFujiInitCommandRequestPacket builds has ProtocolVersion
\* 0x8F53E4F2 for every GUID and name and reports the packet type
\* InitCommandRequest; its payload is the ProtocolVersion in 4 little-endian
\* bytes (F2 E4 53 8F), then the 16 bytes of the GUID, then the FriendlyName.
C17_InitCommandRequestLayout ==
    /\ initReq # NoInitReq =>
          /\ initReq.ProtocolVersion = <<36691, 58610>>
          /\ initReq.GUID = guid
          /\ initReq.FriendlyName = friendlyName
          /\ FujiInitCommandRequestPacket_PacketType(initReq) = PKT_InitCommandRequest
    /\ payload # <<>> =>
          /\ Len(payload) = 4 + 16 + 2 * (Len(friendlyName) + 1)
          /\ SubSeq(payload, 1, 4) = <<242, 228, 83, 143>>
          /\ SubSeq(payload, 5, 20) = guid
          /\ SubSeq(payload, 21, Len(payload)) = UTF16LE(friendlyName)

\* Scenario 6, and a name that is not empty.
C17_Witness ==
    \/ /\ guid = Scenario6GUID
       /\ friendlyName = <<>>
       /\ payload = <<242, 228, 83, 143>> \o Scenario6GUID \o <<0, 0>>
    \/ /\ guid # Scenario6GUID
       /\ Len(friendlyName) = MaxNameLen
       /\ payload # <<>>

-----------------------------------------------------------------------------
(* The command server (unnamed/part_000).  The repository holds two          *)
(* commands files: "A" (lines 214-337, with getval) and "B" (lines 339-508,   *)
(* with describe, get and set).  A string a handler returns is the sequence   *)
(* of its pieces, a newline always being a piece of its own; the text of an   *)
(* error holds no newline.                                                    *)

\* Bound: a line has at most MaxArgs fields after the command name.
MaxArgs == 2

CommandsFiles == {"A", "B"}

\* The names tried: every name of both switches and three names of neither.
CommandNames ==
    {"capture", "shoot", "shutter", "snap", "describe", "info", "get", "getval",
     "opreq", "set", "state", "help", "bogus", "Capture"}

\* The fields tried: one that converts to a number and one that does not.
ArgWords == {"0x5001", "zz"}

ArgLists == UNION {[1..n -> ArgWords] : n \in 0..MaxArgs}

\* The outcomes of a call on the client or the file system: "" is a nil error.
Outcomes == {"", "EOF"}

\* ptpfmt.HexStringToUint64 and formatDeviceProperty accept the field.
Converts(word) == word = "0x5001"

ConversionError == "invalid syntax"

\* func commandByName(n string) command, of file A
commandByName_A(n) ==
    CASE n \in {"capture", "shoot", "shutter", "snap"} -> "capture"
      [] n = "info" -> "info"
      [] n = "getval" -> "getval"
      [] n = "opreq" -> "opreq"
      [] n = "state" -> "state"
      [] OTHER -> "unknown"

\* func commandByName(n string) command, of file B
commandByName_B(n) ==
    CASE n \in {"capture", "shoot", "shutter", "snap"} -> "capture"
      [] n = "describe" -> "describe"
      [] n = "info" -> "info"
      [] n = "get" -> "get"
      [] n = "opreq" -> "opreq"
      [] n = "set" -> "set"
      [] n = "state" -> "state"
      [] OTHER -> "unknown"

\* fmt.Sprintf(errorFmt, err) with errorFmt := "<name> error: %s\n"
ErrorLine(name, text) == <<name, " error: ", text, "\n">>

\* formatDeviceInfo(c.ResponderVendor(), res, f): the output is not known, it
\* is a function of the vendor, of res and of f alone.
formatDeviceInfo(res, f) == <<"formatDeviceInfo(", res, ")">>

\* One call made with the client, and the error it returned.
Call(name, e) == <<name, e>>

\* The handler returns out after the calls it made.
Returns(out, calls) ==
    /\ cmdOut' = out
    /\ cmdCalls' = calls
    /\ cmdPc' = "done"
    /\ UNCHANGED <<cmdFile, cmdName, cmdHandler, cmdArgs>>
    /\ UNCHANGED outsideCli

\* The handler indexes past the end of f: the goroutine panics.
Panics(calls) ==
    /\ cmdCalls' = calls
    /\ cmdPc' = "panicked"
    /\ UNCHANGED <<cmdFile, cmdName, cmdHandler, cmdArgs, cmdOut>>
    /\ UNCHANGED outsideCli

\* The server reads a line, splits it in fields and looks the handler up.
ReadLine ==
    /\ cmdPc \in {"idle", "done"}
    /\ \E n \in CommandNames, f \in ArgLists :
          /\ cmdName' = n
          /\ cmdArgs' = f
          /\ cmdHandler' = IF cmdFile = "A" THEN commandByName_A(n)
                                            ELSE commandByName_B(n)
    /\ cmdPc' = "dispatch"
    /\ cmdOut' = <<>>
    /\ cmdCalls' = <<>>
    /\ UNCHANGED cmdFile
    /\ UNCHANGED outsideCli

\* func unknown(_ *ip.Client, _ []string) string
unknown ==
    /\ cmdPc = "dispatch"
    /\ cmdHandler = "unknown"
    /\ Returns(<<"unknown command", "\n">>, <<>>)

\* func capture(c *ip.Client, f []string) string
capture ==
    /\ cmdPc = "dispatch"
    /\ cmdHandler = "capture"
    /\ \E e \in Outcomes :
          LET calls == <<Call("InitiateCapture", e)>> IN
          IF e # ""
             THEN Returns(<<e>>, calls)
             ELSE IF Len(cmdArgs) = 1
                     THEN \E w \in Outcomes :
                             IF w # ""
                                THEN Returns(<<w, "\n">>, calls)
                                ELSE Returns(<<"Image preview saved to ", cmdArgs[1], "\n">>,
                                             calls)
                     ELSE Returns(<<"Image captured, check the camera", "\n">>, calls)

\* func info(c *ip.Client, f []string) string
info ==
    /\ cmdPc = "dispatch"
    /\ cmdHandler = "info"
    /\ \E e \in Outcomes :
          Returns(formatDeviceInfo(IF e # "" THEN e ELSE "DeviceInfo", cmdArgs),
                  <<Call("GetDeviceInfo", e), Call("ResponderVendor", "")>>)

\* func state(c *ip.Client, f []string) string
state ==
    /\ cmdPc = "dispatch"
    /\ cmdHandler = "state"
    /\ \E e \in Outcomes :
          Returns(formatDeviceInfo(IF e # "" THEN e ELSE "DeviceState", cmdArgs),
                  <<Call("GetDeviceState", e), Call("ResponderVendor", "")>>)

\* func get(c *ip.Client, f []string) string
get ==
    /\ cmdPc = "dispatch"
    /\ cmdHandler = "get"
    /\ IF Len(cmdArgs) = 0
          THEN Panics(<<>>)
          ELSE IF ~Converts(cmdArgs[1])
                  THEN Returns(ErrorLine("get", ConversionError),
                               <<Call("formatDeviceProperty", ConversionError)>>)
                  ELSE \E e \in Outcomes :
                          LET calls == <<Call("formatDeviceProperty", ""),
                                         Call("GetDevicePropertyValue", e)>> IN
                          IF e # ""
                             THEN Returns(ErrorLine("get", e), calls)
                             ELSE Returns(<<"DevicePropValAsString", " (", "v", ")">>,
                                          Append(calls, Call("ResponderVendor", "")))

\* func getval(c *ip.Client, f []string) string, of file A
getval ==
    /\ cmdPc = "dispatch"
    /\ cmdHandler = "getval"
    /\ IF Len(cmdArgs) = 0
          THEN Panics(<<>>)
          ELSE IF ~Converts(cmdArgs[1])
                  THEN Returns(ErrorLine("getval", ConversionError),
                               <<Call("formatDeviceProperty", ConversionError)>>)
                  ELSE \E e \in Outcomes :
                          LET calls == <<Call("formatDeviceProperty", ""),
                                         Call("Debugf", ""),
                                         Call("GetDevicePropertyValue", e)>> IN
                          IF e # ""
                             THEN Returns(ErrorLine("getval", e), calls)
                             ELSE Returns(<<"DevicePropValAsString", " (", "v", ")">>,
                                          Append(calls, Call("ResponderVendor", "")))

\* func describe(c *ip.Client, f []string) string
describe ==
    /\ cmdPc = "dispatch"
    /\ cmdHandler = "describe"
    /\ IF Len(cmdArgs) = 0
          THEN Panics(<<>>)
          ELSE IF ~Converts(cmdArgs[1])
                  THEN Returns(ErrorLine("describe", ConversionError),
                               <<Call("formatDeviceProperty", ConversionError)>>)
                  ELSE \E e \in Outcomes, found \in BOOLEAN :
                          LET calls == <<Call("formatDeviceProperty", ""),
                                         Call("GetDevicePropertyDescription", e)>> IN
                          IF e # ""
                             THEN Returns(ErrorLine("describe", e), calls)
                             ELSE IF ~found
                                     THEN Returns(ErrorLine("describe", "unknown property"),
                                                  calls)
                                     ELSE Returns(<<"fujiFormatDeviceProperty(",
                                                    "DevicePropDesc", ")">>, calls)

\* func set(c *ip.Client, f []string) string
set ==
    /\ cmdPc = "dispatch"
    /\ cmdHandler = "set"
    /\ IF Len(cmdArgs) = 0
          THEN Panics(<<>>)
          ELSE IF ~Converts(cmdArgs[1])
                  THEN Returns(ErrorLine("set", ConversionError),
                               <<Call("formatDeviceProperty", ConversionError)>>)
          ELSE IF Len(cmdArgs) = 1
                  THEN Panics(<<Call("formatDeviceProperty", "")>>)
          ELSE IF ~Converts(cmdArgs[2])
                  THEN Returns(ErrorLine("set", ConversionError),
                               <<Call("formatDeviceProperty", "")>>)
          ELSE \E e \in Outcomes :
                  LET calls == <<Call("formatDeviceProperty", ""), Call("Debugf", ""),
                                 Call("SetDeviceProperty", e)>> IN
                  IF e # ""
                     THEN Returns(ErrorLine("set", e), calls)
                     ELSE Returns(<<"property ", cmdArgs[1], " successfully set to ",
                                    cmdArgs[2], "\n">>, calls)

\* func opreq(c *ip.Client, f []string) string
opreq ==
    /\ cmdPc = "dispatch"
    /\ cmdHandler = "opreq"
    /\ IF Len(cmdArgs) = 0
          THEN Panics(<<>>)
          ELSE IF ~Converts(cmdArgs[1])
                  THEN Returns(ErrorLine("opreq", ConversionError), <<>>)
          ELSE IF \E i \in 2..Len(cmdArgs) : ~Converts(cmdArgs[i])
                  THEN Returns(ErrorLine("opreq", ConversionError), <<Call("Debugf", "")>>)
          ELSE \E e \in Outcomes, packets \in 0..1 :
                  LET calls == <<Call("Debugf", ""), Call("Debugf", ""),
                                 Call("OperationRequestRaw", e)>> IN
                  IF e # ""
                     THEN Returns(ErrorLine("opreq", e), calls)
                     ELSE IF packets = 0
                             THEN Returns(<<>>, calls)
                             ELSE Returns(<<"\n", "Received ", "n", " bytes. HEX dump:",
                                            "\n", "hex.Dump">>, calls)

\* The packets and the dialogue of a handshake the responder accepted.
ServerWire ==
    << NewFujiOpenSessionCommand(0, FujiSessionID),
       FujiOperationRequestPacket(DP_NoDataOrDataIn, OC_SetDevicePropValue, 1,
                                  DPC_Fuji_UseInitSequence),
       FujiOperationRequestPacket(DP_DataOut, OC_SetDevicePropValue, 1, PM_Fuji_InitSequence),
       FujiOperationRequestPacket(DP_NoDataOrDataIn, OC_GetDevicePropValue, 2,
                                  DPC_Fuji_AppVersion),
       FujiOperationRequestPacket(DP_NoDataOrDataIn, OC_SetDevicePropValue, 3,
                                  DPC_Fuji_AppVersion),
       FujiOperationRequestPacket(DP_DataOut, OC_SetDevicePropValue, 3, PM_Fuji_AppVersion),
       FujiOperationRequestPacket(DP_NoDataOrDataIn, OC_InitiateOpenCapture, 4, 0) >>

ServerTrace ==
    LET ok == RecvEvent("p", RC_OK, 0, TRUE)
        w == ServerWire
    IN  << SendEvent(w[1]), ok,
           SendEvent(w[2]), SendEvent(w[3]), ok,
           SendEvent(w[4]), RecvEvent("po", RC_OK, PM_Fuji_AppVersion, TRUE), ok,
           SendEvent(w[5]), SendEvent(w[6]), ok,
           SendEvent(w[7]), ok >>

\* main has called launchServer after that handshake.
ServerLaunched ==
    /\ pc = "Server"
    /\ transactionId = 4
    /\ cmdDataConn = "open"
    /\ deferred = <<"cl.Close">>
    /\ wire = ServerWire
    /\ inbox = <<>>
    /\ respSeen = Len(ServerWire)
    /\ p = [OperationResponseCode |-> RC_OK]
    /\ po = [OperationResponseCode |-> RC_OK, Parameter1 |-> PM_Fuji_AppVersion]
    /\ err = NoError
    /\ exitCode = -1
    /\ trace = ServerTrace
    /\ mainLog = <<"NewClient", "Dial", "launchServer">>

\* The server, built with one of the two commands files, waits for a line.
InitCli ==
    /\ ServerLaunched
    /\ PacketIdle
    /\ ViewIdle
    /\ responderKind = "any"
    /\ cmdFile \in CommandsFiles
    /\ cmdPc = "idle"
    /\ cmdName = ""
    /\ cmdHandler = ""
    /\ cmdArgs = <<>>
    /\ cmdCalls = <<>>
    /\ cmdOut = <<>>

NextCli ==
    \/ ReadLine
    \/ unknown
    \/ capture
    \/ info
    \/ state
    \/ get
    \/ getval
    \/ describe
    \/ set
    \/ opreq

SpecCli == InitCli /\ [][NextCli]_vars

\* The commands of section 6.
CliCommands == {"capture", "info", "get", "set", "describe", "opreq", "state"}

\* A handler has been looked up for the line read.
Dispatched == cmdHandler # ""

\* C19: commandByName maps each of capture, info, get, set, describe, opreq and
\* state to its own handler and every other name to the handler that returns
\* exactly "unknown command\n" without a call on the client.
C19_CommandDispatch ==
    Dispatched =>
        /\ cmdName \in CliCommands => cmdHandler = cmdName
        /\ cmdName \notin CliCommands => cmdHandler = "unknown"
        /\ (cmdHandler = "unknown" /\ cmdPc # "dispatch") =>
              /\ cmdPc = "done"
              /\ cmdOut = <<"unknown command", "\n">>
              /\ cmdCalls = <<>>

\* The calls of a handler that are operations of the client.
ClientOperations ==
    {"InitiateCapture", "GetDeviceInfo", "GetDeviceState", "GetDevicePropertyValue",
     "GetDevicePropertyDescription", "SetDeviceProperty", "OperationRequestRaw"}

\* The handler's operation on the client returned an error.
OperationFailed ==
    \E i \in 1..Len(cmdCalls) :
        cmdCalls[i][1] \in ClientOperations /\ cmdCalls[i][2] # ""

\* C20: a handler of capture, info, get, set, describe, opreq or state whose
\* operation on the client failed returns one line prefixed by the command
\* name: a string that starts with the name and ends with its only newline.
C20_ErrorLinePrefixedByCommand ==
    (cmdPc = "done" /\ cmdHandler \in CliCommands /\ OperationFailed) =>
        /\ cmdOut # <<>>
        /\ cmdOut[1] = cmdHandler
        /\ cmdOut[Len(cmdOut)] = "\n"
        /\ \A i \in 1..(Len(cmdOut) - 1) : cmdOut[i] # "\n"

-----------------------------------------------------------------------------
(* The Fuji X-T1 viewfinder (unnamed/part_000, lines 1-213).  A string is    *)
(* the sequence of its runes.  Dot is kept in pixels: every offset of the     *)
(* source is a whole number of pixels times 64 (fixed.Int26_6).  One widget   *)
(* of the viewfinder is followed; a draw touches no other widget.             *)

\* Bounds: the exposure-bias values tried reach MaxStops whole stops on both
\* sides; the images tried are the first MaxImageScale multiples of 320 x 240.
MaxStops == 4
MaxImageScale == 2

\* Width of a glyph of VFGlyphs6x13 and of basicfont.Face7x13.
FaceWidth(face) == IF face = "Face7x13" THEN 7 ELSE 6

White == <<255, 255, 255>>

\* NewWhiteGlyphWidget / NewWhiteFontWidget: Dot at the origin, white, the
\* face the widget keeps as its default.
NewWidget(x, y, face) ==
    [Origin |-> [X |-> x, Y |-> y], Dot |-> [X |-> x, Y |-> y], Colour |-> White,
     Face |-> face, DefaultFace |-> face]

ResetToOrigin(w) == [w EXCEPT !.Dot = w.Origin]
ResetColour(w) == [w EXCEPT !.Colour = White]
ResetFace(w) == [w EXCEPT !.Face = w.DefaultFace]
SetColour(w, r, g, b) == [w EXCEPT !.Colour = <<r, g, b>>]

\* w.DrawString(s): what is drawn, and the pen advanced by the glyph widths.
DrawEvent(w, s) == [str |-> s, colour |-> w.Colour, face |-> w.Face, dot |-> w.Dot]
DrawString(w, s) == [w EXCEPT !.Dot.X = @ + Len(s) * FaceWidth(w.Face)]

\* The result of a draw function: the widget it leaves, its DrawString calls,
\* its locals, and whether it panicked on an index out of range.
Drawn(w, events, locals, panicked) ==
    [widget |-> w, drawn |-> events, locals |-> locals, panicked |-> panicked]

\* ip.FujiBatteryLevel, 3 bars
BAT_Fuji_3bCritical == 1
BAT_Fuji_3bOne == 2
BAT_Fuji_3bTwo == 3
BAT_Fuji_3bFull == 4

BatteryValues == BAT_Fuji_3bCritical..BAT_Fuji_3bFull

\* func drawFujiBattery3Bars(w *Widget, val int64)
drawFujiBattery3Bars(widg, val) ==
    LET w1 == ResetToOrigin(widg)
        w2 == IF val = BAT_Fuji_3bOne THEN SetColour(w1, 255, 0, 0) ELSE w1
        lvl == CASE val = BAT_Fuji_3bOne -> <<"b", "a", "U">>
                 [] val = BAT_Fuji_3bTwo -> <<"b", "C", "T">>
                 [] val = BAT_Fuji_3bFull -> <<"B", "A", "T">>
                 [] OTHER -> <<>>
    IN  Drawn(DrawString(w2, lvl), <<DrawEvent(w2, lvl)>>, NoLocals, FALSE)

\* func getBias() []rune: "6..5..4..0..1..2..3"
getBias ==
    <<"6", ".", ".", "5", ".", ".", "4", ".", ".", "0", ".", ".", "1", ".", ".",
      "2", ".", ".", "3">>

\* []rune("                   "): as many spaces as the ruler has runes
BlankMarker == [k \in 1..19 |-> " "]

\* int16(val): the low 16 bits, as a signed number
Int16(val) == ((val + 32768) % 65536) - 32768

\* i of math.Modf(float64(x) / float64(1000)): the whole stops, truncated
\* toward zero.
ModfInt(x) == IF x < 0 THEN -((-x) \div 1000) ELSE x \div 1000

\* |f| of math.Modf(...), in thousandths: f has the sign of x, and f == 0
\* exactly when x is a multiple of 1000.
ModfFracMilli(x) == (IF x < 0 THEN -x ELSE x) % 1000

\* math.Abs(f) > 0.4 in float64.  x/1000 is rounded to the nearest double
\* before the whole part is taken off: for |x| = k*1000 + 400 the double is
\* below k + 0.4 for k in 1..3 and 16..32 and above it for k in 4..15, where
\* the difference exceeds the double 0.4; for k = 0 it is the double 0.4.
FracAboveTwoFifths(x) ==
    LET a == IF x < 0 THEN -x ELSE x IN
    \/ a % 1000 > 400
    \/ a % 1000 = 400 /\ a \div 1000 \in 4..15

\* The position counted from 1: zero at 10 instead of 9.
Mut_BiasLocals_ZeroAtTen(val) ==
    LET x == Int16(val)
        i == ModfInt(x)
        fStop == IF ModfFracMilli(x) = 0 THEN 0
                 ELSE LET m == IF FracAboveTwoFifths(x) THEN 2 ELSE 1
                      IN  IF x < 0 THEN -m ELSE m
    IN  [i |-> i, fStop |-> fStop, pos |-> 10 + fStop + i * 3]

\* The locals of lines 89-100: i, fStop and pos.
BiasLocals(val) ==
    LET x == Int16(val)
        i == ModfInt(x)
        fStop == IF ModfFracMilli(x) = 0 THEN 0
                 ELSE LET m == IF FracAboveTwoFifths(x) THEN 2 ELSE 1
                      IN  IF x < 0 THEN -m ELSE m
    IN  [i |-> i, fStop |-> fStop, pos |-> 9 + fStop + i * 3]

\* An index into the 19 runes of bias and marker that does not panic.
InRuler(pos) == pos >= 0 /\ pos < Len(getBias)

\* s[pos] = r, pos counted from 0 as in the source
SetRune(s, pos, r) == [s EXCEPT ![pos + 1] = r]

\* The exposure-bias draw that keeps the colour the last draw left.
Mut_drawFujiExposureBiasCompensation_NoResetColour(widg, val) ==
    LET loc == BiasLocals(val)
        pos == loc.pos
        fZero == ModfFracMilli(Int16(val)) = 0
        onZero == loc.i = 0 /\ fZero
        w0 == ResetToOrigin(widg)
        wIcon == [w0 EXCEPT !.Dot.X = @ - FaceWidth("VFGlyphs6x13") * 3]
        e1 == DrawEvent(wIcon, <<"+", "-">>)
        w1 == ResetToOrigin(DrawString(wIcon, <<"+", "-">>))
    IN  IF fZero /\ ~InRuler(pos) THEN Drawn(w1, <<e1>>, loc, TRUE)
        ELSE
        LET bias == IF fZero THEN SetRune(getBias, pos, "\"") ELSE getBias
            w2 == IF onZero THEN SetColour(w1, 100, 100, 100) ELSE w1
            e2 == DrawEvent(w2, bias)
            w3 == DrawString(w2, bias)
        IN  IF onZero
               THEN LET w4 == ResetToOrigin(SetColour(w3, 255, 255, 255))
                        m1 == SetRune(BlankMarker, pos, "\"")
                        w5 == ResetToOrigin(DrawString(w4, m1))
                        m2 == SetRune(m1, pos, "!")
                    IN  Drawn(DrawString(w5, m2),
                              <<e1, e2, DrawEvent(w4, m1), DrawEvent(w5, m2)>>, loc, FALSE)
               ELSE IF ~InRuler(pos) THEN Drawn(w3, <<e1, e2>>, loc, TRUE)
               ELSE LET m == SetRune(BlankMarker, pos, "!")
                        w4 == ResetToOrigin(SetColour(w3, 255, 185, 10))
                    IN  Drawn(DrawString(w4, m), <<e1, e2, DrawEvent(w4, m)>>, loc, FALSE)

\* func drawFujiExposureBiasCompensation(w *Widget, val int64)
drawFujiExposureBiasCompensation(widg, val) ==
    LET loc == BiasLocals(val)
        pos == loc.pos
        fZero == ModfFracMilli(Int16(val)) = 0
        onZero == loc.i = 0 /\ fZero
        w0 == ResetColour(ResetToOrigin(widg))
        wIcon == [w0 EXCEPT !.Dot.X = @ - FaceWidth("VFGlyphs6x13") * 3]
        e1 == DrawEvent(wIcon, <<"+", "-">>)
        w1 == ResetToOrigin(DrawString(wIcon, <<"+", "-">>))
    IN  IF fZero /\ ~InRuler(pos) THEN Drawn(w1, <<e1>>, loc, TRUE)
        ELSE
        LET bias == IF fZero THEN SetRune(getBias, pos, "\"") ELSE getBias
            w2 == IF onZero THEN SetColour(w1, 100, 100, 100) ELSE w1
            e2 == DrawEvent(w2, bias)
            w3 == DrawString(w2, bias)
        IN  IF onZero
               THEN LET w4 == ResetToOrigin(SetColour(w3, 255, 255, 255))
                        m1 == SetRune(BlankMarker, pos, "\"")
                        w5 == ResetToOrigin(DrawString(w4, m1))
                        m2 == SetRune(m1, pos, "!")
                    IN  Drawn(DrawString(w5, m2),
                              <<e1, e2, DrawEvent(w4, m1), DrawEvent(w5, m2)>>, loc, FALSE)
               ELSE IF ~InRuler(pos) THEN Drawn(w3, <<e1, e2>>, loc, TRUE)
               ELSE LET m == SetRune(BlankMarker, pos, "!")
                        w4 == ResetToOrigin(SetColour(w3, 255, 185, 10))
                    IN  Drawn(DrawString(w4, m), <<e1, e2, DrawEvent(w4, m)>>, loc, FALSE)

\* ptp.ExposureProgramMode
EPM_Manual == 1
EPM_Automatic == 2
EPM_AperturePriority == 3
EPM_ShutterPriority == 4

\* A mode after the four the switch names has no icon.
ModeValues == EPM_Manual..(EPM_ShutterPriority + 1)

\* func drawFujiExposureProgramMode(w *Widget, val int64)
drawFujiExposureProgramMode(widg, val) ==
    LET w1 == ResetToOrigin(widg)
        icon == CASE val = EPM_Manual -> <<"M", "m">>
                  [] val = EPM_Automatic -> <<"P", "p">>
                  [] val = EPM_AperturePriority -> <<"N", "n">>
                  [] val = EPM_ShutterPriority -> <<"L", "l">>
                  [] OTHER -> <<" ">>
    IN  Drawn(DrawString(w1, icon), <<DrawEvent(w1, icon)>>, NoLocals, FALSE)

\* A number in decimal, as runes.
RECURSIVE Dec(_)
Dec(n) ==
    LET digit == <<"0", "1", "2", "3", "4", "5", "6", "7", "8", "9">>[(n % 10) + 1]
    IN  IF n < 10 THEN <<digit>> ELSE Append(Dec(n \div 10), digit)

\* ptpfmt.FujiExposureIndexAsString: the sensitivity in the low 16 bits, a
\* leading S when a bit of the high 16 bits marks it as chosen by the camera.
FujiExposureIndexAsString(val) ==
    IF val \div 65536 # 0 THEN <<"S">> \o Dec(val % 65536) ELSE Dec(val)

ISOValues == {200, 6400, 16384 * 65536 + 400, 16384 * 65536 + 6400}

\* The ISO draw that leaves the face of the value for the next draw's icon.
Mut_drawFujiISO_NoResetFace(widg, val) ==
    LET iso == FujiExposureIndexAsString(val)
        auto == iso # <<>> /\ Head(iso) = "S"
        w1 == ResetToOrigin(widg)
        e1 == DrawEvent(w1, <<"i", "s">>)
        w2 == DrawString(w1, <<"i", "s">>)
        w3 == [w2 EXCEPT !.Dot = [X |-> w2.Dot.X - 18, Y |-> w2.Dot.Y - 8]]
        w4 == IF auto THEN [DrawString(w3, <<"I", "S", "O">>) EXCEPT !.Dot.Y = @ + 8]
                      ELSE w2
        w5 == [w4 EXCEPT !.Face = "Face7x13",
                         !.Dot = [X |-> w4.Dot.X + 6, Y |-> w4.Dot.Y + 2]]
        value == IF auto THEN Tail(iso) ELSE iso
    IN  Drawn(DrawString(w5, value),
              <<e1>> \o (IF auto THEN <<DrawEvent(w3, <<"I", "S", "O">>)>> ELSE <<>>)
                   \o <<DrawEvent(w5, value)>>,
              NoLocals, FALSE)

\* func drawFujiISO(w *Widget, val int64)
drawFujiISO(widg, val) ==
    LET iso == FujiExposureIndexAsString(val)
        auto == iso # <<>> /\ Head(iso) = "S"
        w1 == ResetFace(ResetToOrigin(widg))
        e1 == DrawEvent(w1, <<"i", "s">>)
        w2 == DrawString(w1, <<"i", "s">>)
        w3 == [w2 EXCEPT !.Dot = [X |-> w2.Dot.X - 18, Y |-> w2.Dot.Y - 8]]
        w4 == IF auto THEN [DrawString(w3, <<"I", "S", "O">>) EXCEPT !.Dot.Y = @ + 8]
                      ELSE w2
        w5 == [w4 EXCEPT !.Face = "Face7x13",
                         !.Dot = [X |-> w4.Dot.X + 6, Y |-> w4.Dot.Y + 2]]
        value == IF auto THEN Tail(iso) ELSE iso
    IN  Drawn(DrawString(w5, value),
              <<e1>> \o (IF auto THEN <<DrawEvent(w3, <<"I", "S", "O">>)>> ELSE <<>>)
                   \o <<DrawEvent(w5, value)>>,
              NoLocals, FALSE)

\* ptpfmt.FNumberAsString: "f/" and the aperture, kept in hundredths, with
\* one decimal
FNumberAsString(v) ==
    <<"f", "/">> \o Dec(v \div 100) \o <<".">> \o Dec((v % 100) \div 10)

\* strings.Replace(s, "f/", "F", 1)
RECURSIVE ReplaceFirstFSlash(_)
ReplaceFirstFSlash(str) ==
    IF Len(str) < 2 THEN str
    ELSE IF str[1] = "f" /\ str[2] = "/" THEN <<"F">> \o SubSeq(str, 3, Len(str))
    ELSE <<Head(str)>> \o ReplaceFirstFSlash(Tail(str))

FNumberValues == {140, 280, 1100, 65536 + 280}

\* The F-number draw that goes on from where the pen was left.
Mut_drawFujiFNumber_NoReset(widg, val) ==
    LET str == ReplaceFirstFSlash(FNumberAsString(val % 65536))
    IN  Drawn(DrawString(widg, str), <<DrawEvent(widg, str)>>, NoLocals, FALSE)

\* func drawFujiFNumber(w *Widget, val int64)
drawFujiFNumber(widg, val) ==
    LET w1 == ResetToOrigin(widg)
        str == ReplaceFirstFSlash(FNumberAsString(val % 65536))
    IN  Drawn(DrawString(w1, str), <<DrawEvent(w1, str)>>, NoLocals, FALSE)

\* The images tried: img.Bounds().Min is (0, 0), Max a multiple of 320 x 240.
Images == {[X |-> 320 * k, Y |-> 240 * k] : k \in 1..MaxImageScale}

\* The exposure-bias values tried: up to MaxStops whole stops on both sides
\* with the fractions around the thresholds, the ends of int16, and a value
\* whose int16 is 1000.
BiasFractions == {0, 1, 333, 400, 401, 666, 999}

BiasValues ==
    {sgn * (k * 1000 + fr) : sgn \in {-1, 1}, k \in 0..MaxStops, fr \in BiasFractions}
        \cup {32767, -32768, 65536 + 1000}

\* func NewFujiBatteryLevelWidget(img *image.RGBA) *Widget
NewFujiBatteryLevelWidget(img) ==
    NewWidget(img.X - img.X \div 10, img.Y - 8, "VFGlyphs6x13")

\* func NewFujiExposureBiasCompensationWidget(img *image.RGBA) *Widget
NewFujiExposureBiasCompensationWidget(img) ==
    NewWidget(img.X - img.X \div 2 - (FaceWidth("VFGlyphs6x13") * Len(getBias)) \div 2,
              img.Y - 10, "VFGlyphs6x13")

\* func NewFujiExposureProgramModeWidget(img *image.RGBA) *Widget
NewFujiExposureProgramModeWidget(img) ==
    NewWidget(img.X \div 10, img.Y - 10, "VFGlyphs6x13")

\* func NewFujiISOWidget(img *image.RGBA) *Widget
NewFujiISOWidget(img) ==
    NewWidget(img.X - img.X \div 5, img.Y - 10, "VFGlyphs6x13")

\* func NewFujiFNumberWidget(img *image.RGBA) *Widget
NewFujiFNumberWidget(img) ==
    NewWidget(img.X \div 4, img.Y - 10, "Face7x13")

WidgetKinds == {"battery", "bias", "mode", "iso", "fnumber"}

\* func NewFujiXT1Viewfinder(img *image.RGBA) *Viewfinder: the widget of a kind
NewFujiXT1Viewfinder(img, kind) ==
    CASE kind = "battery" -> NewFujiBatteryLevelWidget(img)
      [] kind = "bias" -> NewFujiExposureBiasCompensationWidget(img)
      [] kind = "mode" -> NewFujiExposureProgramModeWidget(img)
      [] kind = "iso" -> NewFujiISOWidget(img)
      [] kind = "fnumber" -> NewFujiFNumberWidget(img)

\* A viewfinder has been constructed for an image; nothing is drawn yet.
InitView ==
    /\ pc = "Start"
    /\ transactionId = InitialTransactionId
    /\ cmdDataConn = "unopened"
    /\ deferred = <<>>
    /\ wire = <<>>
    /\ inbox = <<>>
    /\ respSeen = 0
    /\ p = ZeroResponse
    /\ po = ZeroResponseOne
    /\ err = NoError
    /\ exitCode = -1
    /\ trace = <<>>
    /\ mainLog = <<>>
    /\ PacketIdle
    /\ CliIdle
    /\ responderKind = "any"
    /\ vfImage \in Images
    /\ vfKind \in WidgetKinds
    /\ widget = NewFujiXT1Viewfinder(vfImage, vfKind)
    /\ drawPc = "idle"
    /\ drawVal = 0
    /\ drawLocals = NoLocals
    /\ drawn = <<>>
    /\ prevDraw = NoDraw

\* w.Draw(w, val) has run: res is what the draw function did.
Redraw(val, res) ==
    /\ widget' = res.widget
    /\ drawn' = res.drawn
    /\ drawLocals' = res.locals
    /\ drawVal' = val
    /\ drawPc' = IF res.panicked THEN "panicked" ELSE "drawn"
    /\ prevDraw' = [val |-> drawVal, drawn |-> drawn, widget |-> widget,
                    done |-> drawPc = "drawn"]
    /\ UNCHANGED <<vfImage, vfKind>>
    /\ UNCHANGED outsideView

\* The battery level changed.
RedrawBatteryLevel ==
    /\ vfKind = "battery"
    /\ drawPc # "panicked"
    /\ \E val \in BatteryValues : Redraw(val, drawFujiBattery3Bars(widget, val))

\* The exposure bias compensation changed.
RedrawExposureBiasCompensation ==
    /\ vfKind = "bias"
    /\ drawPc # "panicked"
    /\ \E val \in BiasValues : Redraw(val, drawFujiExposureBiasCompensation(widget, val))

\* The exposure program mode changed.
RedrawExposureProgramMode ==
    /\ vfKind = "mode"
    /\ drawPc # "panicked"
    /\ \E val \in ModeValues : Redraw(val, drawFujiExposureProgramMode(widget, val))

\* The exposure index changed.
RedrawISO ==
    /\ vfKind = "iso"
    /\ drawPc # "panicked"
    /\ \E val \in ISOValues : Redraw(val, drawFujiISO(widget, val))

\* The F-number changed.
RedrawFNumber ==
    /\ vfKind = "fnumber"
    /\ drawPc # "panicked"
    /\ \E val \in FNumberValues : Redraw(val, drawFujiFNumber(widget, val))

NextView ==
    \/ RedrawBatteryLevel
    \/ RedrawExposureBiasCompensation
    \/ RedrawExposureProgramMode
    \/ RedrawISO
    \/ RedrawFNumber

SpecView == InitView /\ [][NextView]_vars

-----------------------------------------------------------------------------
(* Properties of the viewfinder *)

\* The exposure-bias widget has been asked to draw (the draw may have panicked).
BiasDrawn == vfKind = "bias" /\ drawPc # "idle"

\* The whole stops of x thousandths of a stop, truncated toward zero.
WholeStops(x) == IF x >= 0 THEN x \div 1000 ELSE -((0 - x) \div 1000)

\* The string that holds rune r at index pos (from 0) and spaces elsewhere.
MarkerAt(pos, r) == [k \in 1..19 |-> IF k = pos + 1 THEN r ELSE " "]

Yellow == <<255, 185, 10>>
Grey == <<100, 100, 100>>
Red == <<255, 0, 0>>

\* C21: the marker index of the exposure-bias draw is 9 + thirdStop + 3*i with
\* i the whole part of int16(v)/1000 truncated toward zero: raw 0 gives 9, raw
\* +1000 gives 12, raw +333 gives 10 and raw -1666 gives 4; a draw that
\* returns has drawn the marker glyph at that index.
C21_MarkerPosition ==
    BiasDrawn =>
        /\ drawLocals.i = WholeStops(Int16(drawVal))
        /\ drawLocals.pos = 9 + drawLocals.fStop + 3 * drawLocals.i
        /\ drawVal = 0 => drawLocals.pos = 9
        /\ drawVal = 1000 => drawLocals.pos = 12
        /\ drawVal = 333 => drawLocals.pos = 10
        /\ drawVal = -1666 => drawLocals.pos = 4
        /\ drawPc = "drawn" => drawn[Len(drawn)].str = MarkerAt(drawLocals.pos, "!")

C21_Witness ==
    /\ BiasDrawn
    /\ drawPc = "drawn"
    /\ drawVal = -1666
    /\ drawn[Len(drawn)].str = MarkerAt(4, "!")

\* C22: for every raw value v with |v| >= 3000 that is a multiple of 1000 the
\* draw puts the marker at 9 + 3*(v/1000), with no third-stop offset.
C22_WholeStopsFromThree ==
    (/\ BiasDrawn
     /\ drawVal = Int16(drawVal)
     /\ drawVal >= 3000 \/ drawVal <= -3000
     /\ drawVal % 1000 = 0) =>
        /\ drawLocals.fStop = 0
        /\ drawPc = "drawn"
        /\ drawn[Len(drawn)].str = MarkerAt(9 + 3 * WholeStops(drawVal), "!")

\* C23: the third-stop offset is 0 when the fractional part f of int16(v)/1000
\* is 0, of magnitude 1 when 0 < |f| <= 0.4 and of magnitude 2 when |f| > 0.4,
\* with the sign of f; it is always in -2..2.
C23_ThirdStopOffset ==
    BiasDrawn =>
        LET x == Int16(drawVal)
            milli == (IF x < 0 THEN 0 - x ELSE x) % 1000
            magnitude == CASE milli = 0 -> 0
                           [] milli > 0 /\ milli <= 400 -> 1
                           [] milli > 400 -> 2
        IN  /\ drawLocals.fStop = (IF x < 0 THEN 0 - magnitude ELSE magnitude)
            /\ drawLocals.fStop \in -2..2

\* C24: a battery redraw with level One draws in red and a redraw with level
\* Two or Full draws in the default colour of the widget, whatever was drawn
\* before, a level One included.
C24_BatteryColour ==
    (vfKind = "battery" /\ drawPc = "drawn") =>
        /\ drawVal = BAT_Fuji_3bOne => drawn[1].colour = Red
        /\ drawVal \in {BAT_Fuji_3bTwo, BAT_Fuji_3bFull} => drawn[1].colour = White

\* Two draws in a row have returned, both for the same value.
DrewTwice ==
    /\ drawPc = "drawn"
    /\ prevDraw.done
    /\ prevDraw.val = drawVal

\* C25: for every widget and every value, drawing the value a second time in
\* a row draws the same strings in the same colours, faces and places and
\* leaves the same Dot, colour and face as the first draw did.
C25_RedrawIdempotent ==
    DrewTwice =>
        /\ drawn = prevDraw.drawn
        /\ widget = prevDraw.widget

C25_Witness ==
    /\ DrewTwice
    /\ vfKind = "iso"
    /\ Len(drawn) = 3
    /\ widget.Face # widget.DefaultFace

\* C26: the exposure-bias draw, after the sign pair: on zero (i = 0, f = 0)
\* the ruler in grey, then the placeholder and the marker glyph at index 9 in
\* white; for every other value the ruler in the default colour and the
\* marker in yellow (255,185,10); when f = 0 the ruler holds the placeholder
\* rune at the marker index.
C26_BiasColours ==
    BiasDrawn =>
        LET x == Int16(drawVal)
            pos == drawLocals.pos
            ruler == IF x % 1000 = 0 /\ InRuler(pos)
                        THEN [getBias EXCEPT ![pos + 1] = "\""] ELSE getBias
        IN  /\ Len(drawn) >= 2 =>
                  /\ drawn[2].str = ruler
                  /\ drawn[2].colour = (IF x = 0 THEN Grey ELSE White)
            /\ (drawPc = "drawn" /\ x = 0) =>
                  /\ Len(drawn) = 4
                  /\ pos = 9
                  /\ drawn[3] = [str |-> MarkerAt(9, "\""), colour |-> White,
                                 face |-> widget.Face, dot |-> widget.Origin]
                  /\ drawn[4] = [str |-> MarkerAt(9, "!"), colour |-> White,
                                 face |-> widget.Face, dot |-> widget.Origin]
            /\ (drawPc = "drawn" /\ x # 0) =>
                  /\ Len(drawn) = 3
                  /\ drawn[3] = [str |-> MarkerAt(pos, "!"), colour |-> Yellow,
                                 face |-> widget.Face, dot |-> widget.Origin]

\* A draw on zero after a draw that left the widget yellow, and the reverse.
C26_Witness ==
    /\ BiasDrawn
    /\ drawPc = "drawn"
    /\ prevDraw.done
    /\ \/ drawVal = 0 /\ prevDraw.widget.Colour = Yellow
       \/ drawVal = 2000 /\ prevDraw.widget.Colour = White /\ prevDraw.val = 0

\* C27: every draw function puts Dot back at the origin before it draws:
\* its first string is drawn from the origin (the sign pair of the exposure
\* bias three glyphs left of it), wherever the draw before left Dot.
C27_ResetsDotFirst ==
    drawPc # "idle" =>
        /\ drawn # <<>>
        /\ drawn[1].dot = IF vfKind = "bias"
                              THEN [widget.Origin EXCEPT !.X = @ - 3 * 6]
                              ELSE widget.Origin

C27_Witness ==
    /\ drawPc = "drawn"
    /\ vfKind = "fnumber"
    /\ prevDraw.done
    /\ prevDraw.widget.Dot # widget.Origin
    /\ drawn[1].dot = widget.Origin

\* C30: for every int16 exposure-bias value the marker index lies in 0..18,
\* the indices of the 19 runes of the ruler and of the marker, and no draw
\* indexes outside them.
C30_MarkerIndexInRuler ==
    BiasDrawn =>
        /\ drawLocals.pos \in 0..18
        /\ drawPc # "panicked"

-----------------------------------------------------------------------------
(* The handshake against a responder that always answers (C28, C29) *)

\* C28: in the GetDevicePropValue(0xDF24) step the client consumes first a
\* one-parameter packet that carries the value and then the terminating
\* response; the second is awaited only if the first was successful, the
\* handshake goes on only if both were, and the TransactionID is incremented
\* only after the terminating response.
C28_ValueThenResponse ==
    Len(trace) >= 6 =>
        LET request == trace[6].pkt IN
        /\ request.OperationCode = OC_GetDevicePropValue
        /\ Len(trace) >= 7 => trace[7].into = "po"
        /\ Len(trace) >= 8 => trace[7].ok /\ trace[8].into = "p"
        /\ Len(trace) >= 9 =>
              /\ trace[8].ok
              /\ trace[9].pkt.TransactionID = request.TransactionID + 1
        /\ (Len(trace) <= 7 \/ (Len(trace) = 8 /\ ~trace[8].ok)) =>
              transactionId = request.TransactionID
        /\ (Len(trace) = 8 /\ trace[8].ok) =>
              transactionId = request.TransactionID + 1

C28_Witness ==
    /\ Len(trace) = 9
    /\ trace[7].into = "po"
    /\ trace[7].code = RC_Fuji_DevicePropValue
    /\ trace[8].into = "p"
    /\ po.Parameter1 # PM_Fuji_AppVersion

\* FujiInitSequence has been entered on an open Command/Data connection; the
\* responder answers an operation with one packet, as section 4.5 describes
\* the steps, or GetDevicePropValue with a value packet and a response.
InitLive ==
    /\ pc = "SendOpenSession"
    /\ transactionId = InitialTransactionId
    /\ cmdDataConn = "open"
    /\ deferred = <<"cl.Close">>
    /\ wire = <<>>
    /\ inbox = <<>>
    /\ respSeen = 0
    /\ p = ZeroResponse
    /\ po = ZeroResponseOne
    /\ err = NoError
    /\ exitCode = -1
    /\ trace = <<>>
    /\ mainLog = <<"NewClient">>
    /\ PacketIdle
    /\ CliIdle
    /\ ViewIdle
    /\ responderKind \in {"one", "two"}

\* Exactly one successful packet for the operation; the answer to
\* GetDevicePropValue carries the value as its first parameter.
ResponderOnePacket ==
    /\ responderKind = "one"
    /\ ResponderReads
    /\ ~AwaitsData(wire[respSeen + 1])
    /\ \E c \in SuccessCodes, v \in AppVersions :
          inbox' = Append(inbox,
                          ResponsePacket(c, IF wire[respSeen + 1].OperationCode
                                                  = OC_GetDevicePropValue
                                               THEN <<v>> ELSE <<>>))
    /\ UNCHANGED <<pc, transactionId, cmdDataConn, deferred, wire, p, po, err,
                   exitCode, trace>>
    /\ UNCHANGED <<mainLog, packetVars, cliVars, viewVars, responderKind>>

\* One successful packet for the operation, and for GetDevicePropValue the
\* packet with the value before it.
ResponderValueAndResponse ==
    /\ responderKind = "two"
    /\ ResponderReads
    /\ ~AwaitsData(wire[respSeen + 1])
    /\ \E c1 \in SuccessCodes, v \in AppVersions, c2 \in SuccessCodes :
          inbox' = inbox \o (IF wire[respSeen + 1].OperationCode = OC_GetDevicePropValue
                                THEN <<ResponsePacket(c1, <<v>>)>> ELSE <<>>)
                         \o <<ResponsePacket(c2, <<>>)>>
    /\ UNCHANGED <<pc, transactionId, cmdDataConn, deferred, wire, p, po, err,
                   exitCode, trace>>
    /\ UNCHANGED <<mainLog, packetVars, cliVars, viewVars, responderKind>>

\* The connection does not fail: a send succeeds, and a wait fails only when
\* no packet is left to read and the responder has answered all it has read.
NoFault ==
    /\ err'.kind # "send"
    /\ err'.kind = "wait" => (inbox = <<>> /\ respSeen = Len(wire))

LiveHandshake == FujiInitSequence /\ NoFault

NextLive ==
    \/ LiveHandshake
    \/ ResponderAwaitsData
    \/ ResponderOnePacket
    \/ ResponderValueAndResponse

SpecLive == InitLive /\ [][NextLive]_vars /\ WF_vars(NextLive)

\* The handshake has returned success.
Ready == pc = "DialReturned" /\ err = NoError /\ Len(trace) = Len(HandshakeOrder)

\* C29: against a responder that answers every operation of the handshake
\* with exactly one successful response packet, the handshake eventually
\* returns success; it does not wait for a packet the responder never sends.
C29_OnePacketResponderReady == (responderKind = "one") ~> Ready

\* With the value packet and the response the handshake does become ready.
TwoPacketResponderReady == (responderKind = "two") ~> Ready

-----------------------------------------------------------------------------
(* History independence of a redraw (C31) *)

\* w.Draw(w, val) for the widget of a kind.
DrawOf(kind, widg, val) ==
    CASE kind = "battery" -> drawFujiBattery3Bars(widg, val)
      [] kind = "bias" -> drawFujiExposureBiasCompensation(widg, val)
      [] kind = "mode" -> drawFujiExposureProgramMode(widg, val)
      [] kind = "iso" -> drawFujiISO(widg, val)
      [] kind = "fnumber" -> drawFujiFNumber(widg, val)

\* The strings of a draw with the colour each was drawn in.
StringsAndColours(events) ==
    [k \in 1..Len(events) |-> <<events[k].str, events[k].colour>>]

\* What the value draws on a widget of the same kind that has drawn nothing.
DrawnOnNewWidget ==
    DrawOf(vfKind, NewFujiXT1Viewfinder(vfImage, vfKind), drawVal).drawn

\* C31: for every widget and every value, the strings and colours a draw of
\* the value puts on the image are the same whatever was drawn on the widget
\* before: they are those the value draws on a widget with no draws behind it.
C31_HistoryIndependent ==
    drawPc = "drawn" => StringsAndColours(drawn) = StringsAndColours(DrawnOnNewWidget)

-----------------------------------------------------------------------------
(* Failure of a send or a wait inside the handshake (C32) *)

\* The positions at which the next call sends the request of an operation.
RequestSteps ==
    {"SendOpenSession", "SendUseInitSequence", "SendGetAppVersion",
     "SendSetAppVersion", "SendInitiateOpenCapture"}

HandshakeSteps ==
    RequestSteps \cup
    {"WaitOpenSession", "SendUseInitSequenceData", "WaitUseInitSequence",
     "WaitAppVersionValue", "WaitGetAppVersion", "SendSetAppVersionData",
     "WaitSetAppVersion", "WaitInitiateOpenCapture"}

\* The TransactionID of the request of the step the handshake is in: that of
\* the request on the wire, or, when the request is the packet to send, the
\* initial TransactionID plus the operations that were completed.
StepRequestTid ==
    IF pc \in RequestSteps
       THEN InitialTransactionId + Len(SelectSeq(trace, IsResponse))
       ELSE LastOpTid

\* A send or a wait of the step has returned an error.
StepFails == pc \in HandshakeSteps /\ err'.kind \in {"send", "wait"}

\* C32: when a send or a wait on the Command/Data connection returns an error
\* at a step, FujiInitSequence returns that error in the same step, no packet
\* is sent in it or after it, and the TransactionID stays the one the request
\* of the failed step carries.
C32_FailureAtomicity ==
    [][/\ StepFails =>
            /\ pc' = "DialReturned"
            /\ err' \in {SendError, WaitError}
            /\ (err' = SendError) = (pc \in {"SendOpenSession", "SendUseInitSequence",
                                              "SendUseInitSequenceData", "SendGetAppVersion",
                                              "SendSetAppVersion", "SendSetAppVersionData",
                                              "SendInitiateOpenCapture"})
            /\ wire' = wire
            /\ trace' = trace
            /\ transactionId' = transactionId
            /\ transactionId' = StepRequestTid
       /\ (pc \notin HandshakeSteps /\ err.kind \in {"send", "wait"}) =>
            /\ wire' = wire
            /\ transactionId' = transactionId
            /\ err' = err]_vars

C32_Witness ==
    /\ pc = "DialReturned"
    /\ err = WaitError
    /\ Len(trace) = 10
    /\ IsSend(Last(trace))
    /\ transactionId = 3

-----------------------------------------------------------------------------
(* The two packets of a two-part write (C33) *)

\* The second packet of a two-part write: the one with the data.
IsDataOut(e) == IsSend(e) /\ e.pkt.DataPhaseInfo = DP_DataOut

\* C33: the DataOut packet of SetDevicePropValue(0xDF01) and of
\* SetDevicePropValue(0xDF24) follows its request directly and carries the
\* TransactionID and the operation code of the request, and between the two
\* sends the TransactionID is the one the request carries.
C33_TwoPartWriteSameTransaction ==
    /\ \A i \in 1..Len(trace) :
          IsDataOut(trace[i]) =>
              /\ i > 1
              /\ IsOpStart(trace[i - 1])
              /\ trace[i - 1].pkt.Parameter1 \in {DPC_Fuji_UseInitSequence, DPC_Fuji_AppVersion}
              /\ trace[i].pkt.TransactionID = trace[i - 1].pkt.TransactionID
              /\ trace[i].pkt.OperationCode = trace[i - 1].pkt.OperationCode
              /\ trace[i].pkt.OperationCode = OC_SetDevicePropValue
    /\ pc \in {"SendUseInitSequenceData", "SendSetAppVersionData"} =>
          /\ IsOpStart(Last(trace))
          /\ transactionId = Last(trace).pkt.TransactionID
    /\ Len(SelectSeq(trace, IsDataOut)) <= 2
    /\ pc \in {"WaitUseInitSequence", "WaitSetAppVersion"} =>
          (IsDataOut(Last(trace)) /\ transactionId = Last(trace).pkt.TransactionID)

C33_Witness ==
    /\ Len(trace) >= 10
    /\ IsDataOut(trace[4])
    /\ IsDataOut(trace[10])
    /\ trace[4].pkt.TransactionID = 1
    /\ trace[10].pkt.TransactionID = 3

-----------------------------------------------------------------------------
(* The deferred Close of main (C34) *)

\* The process has ended after ip.NewClient returned a client.
ExitedWithClient == pc = "Exited" /\ Logged("NewClient")

\* C34: on every path by which main leaves after the client was constructed
\* (Dial failed, normal completion, return from the server loop) the deferred
\* cl.Close() has been run when the process has exited: it is no longer
\* waiting on main's stack of deferred calls.
C34_CloseBeforeExit ==
    ExitedWithClient => \A i \in 1..Len(deferred) : deferred[i] # "cl.Close"

-----------------------------------------------------------------------------
(* Command handlers on short argument lists (C35) *)

\* The number of arguments the handler reads by index.
ArgumentsNeeded(handler) ==
    CASE handler \in {"get", "getval", "describe", "opreq"} -> 1
      [] handler = "set" -> 2
      [] OTHER -> 0

\* The handler was called with fewer arguments than it reads by index.
ShortOfArguments == Dispatched /\ Len(cmdArgs) < ArgumentsNeeded(cmdHandler)

\* C35: every command handler returns a string for every argument list: no
\* handler indexes past the end of the list, and get, describe and opreq
\* without an argument and set with fewer than two return an error line of
\* the command.
C35_HandlersReturnOnShortArguments ==
    /\ cmdPc # "panicked"
    /\ (ShortOfArguments /\ cmdPc = "done") =>
          \E e \in Outcomes \cup {ConversionError} : cmdOut = ErrorLine(cmdHandler, e)

====
